---- MODULE Spec2Model ----
(***************************************************************************)
(* A model of the @stravigor/oauth2 authorization server: the credential   *)
(* store (clients, authorization codes, tokens), the session of the        *)
(* consent step, and the handlers of GET/POST /authorize and POST /token.  *)
(* The /authorize handlers are single actions; the /token handlers are     *)
(* processes that take one step per database statement, so that requests   *)
(* interleave the way concurrent handlers on a connection pool do.         *)
(***************************************************************************)
EXTENDS Integers, Sequences, FiniteSets, TLC

\* ------------------------------------------------------------------ bounds

NumProcs == 2
MaxCodes == 2
MaxTokens == 3
MaxTime == 2

\* ------------------------------------------------------------ value pools

\* A request parameter that is not sent (undefined in the handler).
Absent == "<absent>"
\* SQL NULL / JS null of a nullable column; Some(x) is a present value.
NULL == <<>>
Some(x) == <<x>>
ValueOf(n) == n[1]

\* JS truthiness of an optional string parameter: undefined and "" are falsy.
Truthy(s) == s # Absent /\ s # ""
\* JS truthiness of a nullable string / Date column.
TruthyCol(n) == n # NULL /\ ValueOf(n) # ""
\* `x ?? null`
OrNull(s) == IF s = Absent THEN NULL ELSE Some(s)

Range(s) == {s[i] : i \in DOMAIN s}

Procs == 1..NumProcs
ClientIds == {"c1", "c2"}
UnknownClient == "cX"
Users == {[id |-> "alice"]}
Uris == {"u1", "u2"}

\* randomHex(40): the n-th fresh plaintext of each kind.
CodePlain == <<"k1", "k2", "k3", "k4", "k5", "k6">>
AccessPlain == <<"a1", "a2", "a3", "a4", "a5", "a6">>
RefreshPlain == <<"r1", "r2", "r3", "r4", "r5", "r6">>
SecretPlain(c) == IF c = "c1" THEN "s1" ELSE "s2"

\* SHA-256 hex digest: injective, and never equal to its input.
hashCode(plain) == <<"sha256", plain>>
\* A token stored as it is.
hashToken_none(plain) == <<"plain", plain>>
hashToken(plain) == <<"sha256", plain>>
hashSecret(plain) == <<"sha256", plain>>

\* BASE64URL(SHA-256(verifier)), the S256 code challenge of a verifier.
S256(v) ==
    CASE v = "v1" -> "S256:v1"
      [] v = "v2" -> "S256:v2"
      [] OTHER -> "S256:?"

\* A scope parameter: sent or not, and its text as the sequence of its words
\* and the spaces between them.  An unsent or empty one is falsy;
\* split(' ').filter(Boolean) keeps the words.
NoScope == [sent |-> FALSE, text |-> <<>>]
ScopeText(t) == [sent |-> TRUE, text |-> t]
TruthyScope(p) == p.sent /\ p.text # <<>>
SplitScope(p) == SelectSeq(p.text, LAMBDA w : w # " ")

\* ------------------------------------------------------------------ state

VARIABLES
    now,            \* Date.now() / NOW()
    config,         \* OAuth2Manager.config
    scopeRegistry,  \* ScopeRegistry._scopes (the registered names)
    clients,        \* table _strav_oauth_clients, by id
    codes,          \* table _strav_oauth_auth_codes (set of rows)
    tokens,         \* table _strav_oauth_tokens (set of rows)
    nextCode,       \* number of authorization codes created so far
    nextToken,      \* number of token rows created so far
    session,        \* per user: the session key _oauth2_auth_request
    pendingTouch,   \* ids whose fire-and-forget last_used_at update is in flight
    pc,             \* per request process: the statement its handler is at
    loc,            \* per process: the handler's local variables
    resp            \* per process: the response returned

dbVars == <<clients, codes, tokens, nextCode, nextToken>>
envVars == <<now, config, scopeRegistry>>
procVars == <<pendingTouch, pc, loc, resp>>
vars == <<now, config, scopeRegistry, clients, codes, tokens, nextCode,
          nextToken, session, pendingTouch, pc, loc, resp>>

NoRequest == [pending |-> FALSE]
NoResponse == [kind |-> "none"]
NoLocals == [grant |-> "none"]

\* The handler of process p, holding locals l, returns response r.
Finish(p, l, r) ==
    /\ pc' = [pc EXCEPT ![p] = "done"]
    /\ loc' = [loc EXCEPT ![p] = l]
    /\ resp' = [resp EXCEPT ![p] = r]

\* The handler of process p goes on to statement `label` with locals l.
Goto(p, label, l) ==
    /\ pc' = [pc EXCEPT ![p] = label]
    /\ loc' = [loc EXCEPT ![p] = l]
    /\ UNCHANGED resp

\* ----------------------------------------------------------------- errors

\* OAuth2Error.toJSON() sent with its statusCode; `why` stands for the message.
ErrorJson(status, error, why) ==
    [kind |-> "json", status |-> status, error |-> error, why |-> why]
InvalidRequestError(why) == ErrorJson(400, "invalid_request", why)
InvalidClientError(why) == ErrorJson(401, "invalid_client", why)
InvalidGrantError(why) == ErrorJson(400, "invalid_grant", why)
InvalidScopeError(why) == ErrorJson(400, "invalid_scope", why)
UnsupportedGrantError == ErrorJson(400, "unsupported_grant_type", "unsupported")

\* errorRedirect(): 302 to the redirect URI with error, description and state.
errorRedirect(redirectUri, state, error, why) ==
    [kind |-> "redirect", status |-> 302, location |-> redirectUri,
     error |-> error, why |-> why, code |-> Absent,
     state |-> IF TruthyCol(state) THEN ValueOf(state) ELSE Absent]

\* --------------------------------------------------------- Scope Registry

\* A validate that hands out the default scopes unchecked.
ScopeRegistry_validate_defaultsUnchecked(requested, clientAllowed, defaultScopes) ==
    IF Len(requested) = 0 THEN [ok |-> TRUE, scopes |-> defaultScopes]
    ELSE IF \E i \in DOMAIN requested : requested[i] \notin scopeRegistry
        THEN [ok |-> FALSE, why |-> "unknown_scope"]
    ELSE IF clientAllowed # NULL
            /\ \E i \in DOMAIN requested :
                   requested[i] \notin Range(ValueOf(clientAllowed))
        THEN [ok |-> FALSE, why |-> "scope_not_allowed"]
    ELSE [ok |-> TRUE, scopes |-> requested]

\* A validate that does not look at the client's allow-list.
ScopeRegistry_validate_anyClient(requested, clientAllowed, defaultScopes) ==
    LET scopes == IF Len(requested) > 0 THEN requested ELSE defaultScopes IN
    IF Len(scopes) = 0 THEN [ok |-> TRUE, scopes |-> <<>>]
    ELSE IF \E i \in DOMAIN scopes : scopes[i] \notin scopeRegistry
        THEN [ok |-> FALSE, why |-> "unknown_scope"]
    ELSE [ok |-> TRUE, scopes |-> scopes]

\* ScopeRegistry.validate: the effective scopes, or the InvalidScopeError thrown.
ScopeRegistry_validate(requested, clientAllowed, defaultScopes) ==
    LET scopes == IF Len(requested) > 0 THEN requested ELSE defaultScopes IN
    IF Len(scopes) = 0 THEN [ok |-> TRUE, scopes |-> <<>>]
    ELSE IF \E i \in DOMAIN scopes : scopes[i] \notin scopeRegistry
        THEN [ok |-> FALSE, why |-> "unknown_scope"]
    ELSE IF clientAllowed # NULL
            /\ \E i \in DOMAIN scopes : scopes[i] \notin Range(ValueOf(clientAllowed))
        THEN [ok |-> FALSE, why |-> "scope_not_allowed"]
    ELSE [ok |-> TRUE, scopes |-> scopes]

\* Process p calls ScopeRegistry.validate with these arguments and keeps what
\* it returns, or the InvalidScopeError it throws.
ValidateScopes(p, requested, clientAllowed, defaultScopes) ==
    /\ pc[p] = "idle"
    /\ LET validated == ScopeRegistry_validate(requested, clientAllowed, defaultScopes) IN
       Finish(p, [grant |-> "ScopeRegistry.validate", requested |-> requested,
                  clientAllowed |-> clientAllowed, defaultScopes |-> defaultScopes],
              IF validated.ok
              THEN [kind |-> "value", status |-> 200, error |-> "", why |-> "",
                    scopes |-> validated.scopes]
              ELSE InvalidScopeError(validated.why))
    /\ UNCHANGED <<dbVars, envVars, session, pendingTouch>>

\* ---------------------------------------------------------------- clients

\* OAuthClient.find: the row with that id, or NULL.
OAuthClient_find(id) ==
    IF id \in DOMAIN clients THEN Some(clients[id]) ELSE NULL

\* OAuthClient.verifySecret: the stored hash against the hash of the plain secret.
OAuthClient_verifySecret(client, plainSecret) ==
    IF client.id \notin DOMAIN clients THEN FALSE
    ELSE LET stored == clients[client.id].secret IN
         IF stored = NULL THEN FALSE
         ELSE ValueOf(stored) = hashSecret(plainSecret)

\* OAuthClient.findIncludingRevoked: the row with that id, or NULL.
OAuthClient_findIncludingRevoked(id) ==
    IF id \in DOMAIN clients THEN Some(clients[id]) ELSE NULL

\* OAuthClient.revoke: revoked = true on the row with that id.
OAuthClient_revoke(id) ==
    [c \in DOMAIN clients |->
        IF c = id THEN [clients[c] EXCEPT !.revoked = TRUE] ELSE clients[c]]

\* The application calls OAuthClient.revoke(id).
RevokeClient(id) ==
    /\ clients' = OAuthClient_revoke(id)
    /\ UNCHANGED <<codes, tokens, nextCode, nextToken, envVars, session, procVars>>

\* DELETE /oauth/clients/:id, deleteClientHandler: 404 for an unknown id,
\* otherwise OAuthClient.revoke(id) and 200.
DeleteClient(p, id) ==
    /\ pc[p] = "idle"
    /\ LET client == OAuthClient_findIncludingRevoked(id)
           req == [grant |-> "DELETE /clients", id |-> id]
       IN IF client = NULL THEN
              /\ Finish(p, req, [kind |-> "json", status |-> 404, error |-> "",
                                 why |-> "client_not_found"])
              /\ UNCHANGED clients
          ELSE
              /\ clients' = OAuthClient_revoke(id)
              /\ Finish(p, req, [kind |-> "json", status |-> 200, error |-> "",
                                 why |-> "client_revoked"])
    /\ UNCHANGED <<codes, tokens, nextCode, nextToken, envVars, session, pendingTouch>>

\* ---------------------------------------------------- authorization codes

\* getUserId(user) for a user object with an id.
getUserId(user) == user.id

\* The row AuthCode.create inserts (hash of the fresh plaintext, expiry).
AuthCode_row(params) ==
    [id |-> nextCode + 1,
     clientId |-> params.clientId,
     userId |-> params.userId,
     code |-> hashCode(CodePlain[nextCode + 1]),
     redirectUri |-> params.redirectUri,
     scopes |-> params.scopes,
     codeChallenge |-> params.codeChallenge,
     codeChallengeMethod |-> params.codeChallengeMethod,
     expiresAt |-> now + config.authCodeLifetime,
     usedAt |-> NULL]

\* An issueAuthorizationCode that creates the code without the PKCE challenge.
issueAuthorizationCode_noChallenge(user, clientId, redirectUri, scopes, state, codeChallenge, codeChallengeMethod) ==
    LET row == AuthCode_row([clientId |-> clientId,
                             userId |-> getUserId(user),
                             redirectUri |-> redirectUri,
                             scopes |-> scopes,
                             codeChallenge |-> NULL,
                             codeChallengeMethod |-> NULL])
    IN [resp |-> [kind |-> "redirect", status |-> 302,
                  location |-> redirectUri, error |-> "", why |-> "",
                  code |-> CodePlain[nextCode + 1],
                  state |-> IF TruthyCol(state) THEN ValueOf(state) ELSE Absent],
        created |-> {row}]

\* issueAuthorizationCode: create the code, redirect back with code and state.
\* codeChallenge, codeChallengeMethod and state are nullable values.
issueAuthorizationCode(user, clientId, redirectUri, scopes, state, codeChallenge, codeChallengeMethod) ==
    LET row == AuthCode_row([clientId |-> clientId,
                             userId |-> getUserId(user),
                             redirectUri |-> redirectUri,
                             scopes |-> scopes,
                             codeChallenge |-> codeChallenge,
                             codeChallengeMethod |-> codeChallengeMethod])
    IN [resp |-> [kind |-> "redirect", status |-> 302,
                  location |-> redirectUri, error |-> "", why |-> "",
                  code |-> CodePlain[nextCode + 1],
                  state |-> IF TruthyCol(state) THEN ValueOf(state) ELSE Absent],
        created |-> {row}]

\* ------------------------------------------------------------- /authorize

\* Any redirect URI passes.
redirectUriRegistered_any(client, redirectUri) == TRUE

\* authorizeHandler's redirect URI check: present and registered for the client.
redirectUriRegistered(client, redirectUri) ==
    Truthy(redirectUri) /\ redirectUri \in client.redirectUris

\* No client has to use PKCE.
pkceMissing_never(client, codeChallenge) == FALSE

\* authorizeHandler's PKCE requirement: a public client sent no code_challenge.
pkceMissing(client, codeChallenge) ==
    ~client.confidential /\ ~Truthy(codeChallenge)

\* Every client skips consent.
skipsConsent_always(client) == TRUE

\* authorizeHandler's consent decision: first-party clients skip consent.
skipsConsent(client) == client.firstParty

\* An authorizeHandler that writes the session before it validates the scopes.
authorizeHandler_storesFirst(user, q) ==
    LET codeChallengeMethod ==
            IF q.code_challenge_method = Absent THEN "plain"
            ELSE q.code_challenge_method
        found == OAuthClient_find(q.client_id)
        client == ValueOf(found)
        requestedScopes ==
            IF TruthyScope(q.scope) THEN SplitScope(q.scope) ELSE <<>>
        validated == ScopeRegistry_validate(requestedScopes, client.scopes,
                                            config.defaultScopes)
        keep == session[user]
        fail(r) == [resp |-> r, session |-> keep, created |-> {}]
        stored == [pending |-> TRUE,
                   clientId |-> q.client_id,
                   redirectUri |-> q.redirect_uri,
                   scopes |-> validated.scopes,
                   state |-> OrNull(q.state),
                   codeChallenge |-> OrNull(q.code_challenge),
                   codeChallengeMethod |->
                       IF Truthy(q.code_challenge) THEN Some(codeChallengeMethod)
                       ELSE NULL]
    IN
    IF q.response_type # "code" THEN
        fail(InvalidRequestError("response_type"))
    ELSE IF ~Truthy(q.client_id) THEN
        fail(InvalidRequestError("client_id"))
    ELSE IF found = NULL \/ client.revoked THEN
        fail(InvalidClientError("client"))
    ELSE IF "authorization_code" \notin client.grantTypes THEN
        fail(InvalidRequestError("grant_type"))
    ELSE IF ~redirectUriRegistered(client, q.redirect_uri) THEN
        fail(InvalidRequestError("redirect_uri"))
    ELSE IF pkceMissing(client, q.code_challenge) THEN
        fail(errorRedirect(q.redirect_uri, OrNull(q.state), "invalid_request", "pkce_required"))
    ELSE IF Truthy(q.code_challenge) /\ codeChallengeMethod # "S256"
                                     /\ codeChallengeMethod # "plain" THEN
        fail(errorRedirect(q.redirect_uri, OrNull(q.state), "invalid_request", "challenge_method"))
    ELSE IF ~validated.ok THEN
        [resp |-> errorRedirect(q.redirect_uri, OrNull(q.state), "invalid_scope", validated.why),
         session |-> [pending |-> TRUE,
                      clientId |-> q.client_id,
                      redirectUri |-> q.redirect_uri,
                      scopes |-> requestedScopes,
                      state |-> OrNull(q.state),
                      codeChallenge |-> OrNull(q.code_challenge),
                      codeChallengeMethod |-> NULL],
         created |-> {}]
    ELSE IF skipsConsent(client) THEN
        LET issued == issueAuthorizationCode(user, client.id, q.redirect_uri,
                          validated.scopes, OrNull(q.state),
                          OrNull(q.code_challenge), Some(codeChallengeMethod))
        IN [resp |-> issued.resp, session |-> stored, created |-> issued.created]
    ELSE
        [resp |-> [kind |-> IF config.renderAuthorization THEN "view" ELSE "json",
                   status |-> 200, error |-> "", why |-> "authorization_required",
                   client |-> client.id, scopes |-> validated.scopes,
                   state |-> OrNull(q.state)],
         session |-> stored, created |-> {}]

\* GET /oauth/authorize for the session user `user` and query `q`.
\* Yields the response, the session entry afterwards and the code rows created.
authorizeHandler(user, q) ==
    LET codeChallengeMethod ==
            IF q.code_challenge_method = Absent THEN "plain"
            ELSE q.code_challenge_method
        found == OAuthClient_find(q.client_id)
        client == ValueOf(found)
        requestedScopes ==
            IF TruthyScope(q.scope) THEN SplitScope(q.scope) ELSE <<>>
        validated == ScopeRegistry_validate(requestedScopes, client.scopes,
                                            config.defaultScopes)
        keep == session[user]
        fail(r) == [resp |-> r, session |-> keep, created |-> {}]
        stored == [pending |-> TRUE,
                   clientId |-> q.client_id,
                   redirectUri |-> q.redirect_uri,
                   scopes |-> validated.scopes,
                   state |-> OrNull(q.state),
                   codeChallenge |-> OrNull(q.code_challenge),
                   codeChallengeMethod |->
                       IF Truthy(q.code_challenge) THEN Some(codeChallengeMethod)
                       ELSE NULL]
    IN
    IF q.response_type # "code" THEN
        fail(InvalidRequestError("response_type"))
    ELSE IF ~Truthy(q.client_id) THEN
        fail(InvalidRequestError("client_id"))
    ELSE IF found = NULL \/ client.revoked THEN
        fail(InvalidClientError("client"))
    ELSE IF "authorization_code" \notin client.grantTypes THEN
        fail(InvalidRequestError("grant_type"))
    ELSE IF ~redirectUriRegistered(client, q.redirect_uri) THEN
        fail(InvalidRequestError("redirect_uri"))
    ELSE IF pkceMissing(client, q.code_challenge) THEN
        fail(errorRedirect(q.redirect_uri, OrNull(q.state), "invalid_request", "pkce_required"))
    ELSE IF Truthy(q.code_challenge) /\ codeChallengeMethod # "S256"
                                     /\ codeChallengeMethod # "plain" THEN
        fail(errorRedirect(q.redirect_uri, OrNull(q.state), "invalid_request", "challenge_method"))
    ELSE IF ~validated.ok THEN
        fail(errorRedirect(q.redirect_uri, OrNull(q.state), "invalid_scope", validated.why))
    ELSE IF skipsConsent(client) THEN
        LET issued == issueAuthorizationCode(user, client.id, q.redirect_uri,
                          validated.scopes, OrNull(q.state),
                          OrNull(q.code_challenge), Some(codeChallengeMethod))
        IN [resp |-> issued.resp, session |-> stored, created |-> issued.created]
    ELSE
        [resp |-> [kind |-> IF config.renderAuthorization THEN "view" ELSE "json",
                   status |-> 200, error |-> "", why |-> "authorization_required",
                   client |-> client.id, scopes |-> validated.scopes,
                   state |-> OrNull(q.state)],
         session |-> stored, created |-> {}]

\* An approveHandler that leaves the pending request in the session.
approveHandler_keepsRequest(user, approved) ==
    LET authRequest == session[user] IN
    IF ~authRequest.pending THEN
        [resp |-> InvalidRequestError("no_pending_request"),
         session |-> authRequest, created |-> {}]
    ELSE IF ~approved THEN
        [resp |-> errorRedirect(authRequest.redirectUri, authRequest.state,
                                "access_denied", "denied"),
         session |-> authRequest, created |-> {}]
    ELSE
        LET issued == issueAuthorizationCode(user, authRequest.clientId,
                          authRequest.redirectUri, authRequest.scopes,
                          authRequest.state, authRequest.codeChallenge,
                          authRequest.codeChallengeMethod)
        IN [resp |-> issued.resp, session |-> authRequest, created |-> issued.created]

\* POST /oauth/authorize for the session user `user` with body.approved.
approveHandler(user, approved) ==
    LET authRequest == session[user] IN
    IF ~authRequest.pending THEN
        [resp |-> InvalidRequestError("no_pending_request"),
         session |-> authRequest, created |-> {}]
    ELSE IF ~approved THEN
        [resp |-> errorRedirect(authRequest.redirectUri, authRequest.state,
                                "access_denied", "denied"),
         session |-> NoRequest, created |-> {}]
    ELSE
        LET issued == issueAuthorizationCode(user, authRequest.clientId,
                          authRequest.redirectUri, authRequest.scopes,
                          authRequest.state, authRequest.codeChallenge,
                          authRequest.codeChallengeMethod)
        IN [resp |-> issued.resp, session |-> NoRequest, created |-> issued.created]

\* An /authorize handler run by process p: its response, and its effects on
\* the session and the code table.
AuthorizeEffect(p, user, req, out) ==
    /\ pc[p] = "idle"
    /\ out.created # {} => nextCode < MaxCodes
    /\ Finish(p, req, out.resp)
    /\ session' = [session EXCEPT ![user] = out.session]
    /\ codes' = codes \cup out.created
    /\ nextCode' = nextCode + Cardinality(out.created)
    /\ UNCHANGED <<clients, tokens, nextToken, envVars, pendingTouch>>

\* GET /oauth/authorize
AuthorizeGet(p, user, q) ==
    AuthorizeEffect(p, user, [grant |-> "GET /authorize", user |-> user, query |-> q],
                    authorizeHandler(user, q))

\* POST /oauth/authorize
AuthorizePost(p, user, approved) ==
    AuthorizeEffect(p, user,
                    [grant |-> "POST /authorize", user |-> user, approved |-> approved],
                    approveHandler(user, approved))

\* POST /oauth/authorize with approved = true when AuthCode.create rejects
\* (the INSERT fails): the session entry was forgotten before, the handler
\* throws and no code row is added.
AuthorizePostFails(p, user) ==
    /\ pc[p] = "idle"
    /\ approveHandler(user, TRUE).created # {}
    /\ Finish(p, [grant |-> "POST /authorize", user |-> user, approved |-> TRUE],
              ErrorJson(500, "server_error", "create_failed"))
    /\ session' = [session EXCEPT ![user] = approveHandler(user, TRUE).session]
    /\ UNCHANGED <<dbVars, envVars, pendingTouch>>

\* ------------------------------------------------- AuthCode.consume, parts

\* A SELECT by code hash alone.
AuthCode_select_anyClient(plainCode, clientId) ==
    {r \in codes : r.code = hashCode(plainCode)}

\* The SELECT of consume: the rows with that code hash and client id.
AuthCode_select(plainCode, clientId) ==
    {r \in codes : r.code = hashCode(plainCode) /\ r.clientId = clientId}

\* A PKCE check that compares the verifier itself whatever the stored method.
AuthCode_pkce_plainOnly(record, codeVerifier) ==
    IF TruthyCol(record.codeChallenge) THEN
        IF ~Truthy(codeVerifier) THEN FALSE
        ELSE codeVerifier = ValueOf(record.codeChallenge)
    ELSE TRUE

\* PKCE verification of consume against the stored challenge and method.
AuthCode_pkce(record, codeVerifier) ==
    IF TruthyCol(record.codeChallenge) THEN
        IF ~Truthy(codeVerifier) THEN FALSE
        ELSE IF record.codeChallengeMethod = Some("S256")
            THEN S256(codeVerifier) = ValueOf(record.codeChallenge)
        ELSE codeVerifier = ValueOf(record.codeChallenge)
    ELSE TRUE

\* consume without its replay check.
AuthCode_accepts_replayed(record, redirectUri, codeVerifier) ==
    /\ ~(record.expiresAt < now)
    /\ ~(record.redirectUri # redirectUri)
    /\ AuthCode_pkce(record, codeVerifier)

\* The checks of consume on the selected row: TRUE when it goes on to mark it used.
AuthCode_accepts(record, redirectUri, codeVerifier) ==
    /\ ~(record.usedAt # NULL)
    /\ ~(record.expiresAt < now)
    /\ ~(record.redirectUri # redirectUri)
    /\ AuthCode_pkce(record, codeVerifier)

\* The UPDATE of consume: used_at = NOW() on the row with that id.
AuthCode_markUsed(id) ==
    {IF r.id = id THEN [r EXCEPT !.usedAt = Some(now)] ELSE r : r \in codes}

\* A prune of the used rows only.
AuthCode_prune_usedOnly ==
    /\ codes' = {r \in codes : ~(r.usedAt # NULL)}
    /\ UNCHANGED <<clients, tokens, nextCode, nextToken, envVars, procVars,
                   session>>

\* AuthCode.prune: delete expired and used rows.
AuthCode_prune ==
    /\ codes' = {r \in codes : ~(r.expiresAt < now \/ r.usedAt # NULL)}
    /\ UNCHANGED <<clients, tokens, nextCode, nextToken, envVars, procVars,
                   session>>

\* ----------------------------------------------------------------- tokens

\* A create that adds the refresh token whenever it is asked for.
OAuthToken_row_anyUser(params) ==
    [id |-> nextToken + 1,
     userId |-> params.userId,
     clientId |-> params.clientId,
     scopes |-> params.scopes,
     token |-> hashToken(AccessPlain[nextToken + 1]),
     refreshToken |-> IF params.includeRefreshToken
                      THEN Some(hashToken(RefreshPlain[nextToken + 1])) ELSE NULL,
     expiresAt |-> now + config.accessTokenLifetime,
     refreshExpiresAt |-> IF params.includeRefreshToken
                          THEN Some(now + config.refreshTokenLifetime) ELSE NULL,
     lastUsedAt |-> NULL,
     revokedAt |-> NULL,
     createdAt |-> now]

\* OAuthToken.create: the row inserted for the next fresh pair of plaintexts.
OAuthToken_row(params) ==
    LET withRefresh == params.includeRefreshToken /\ params.userId # NULL IN
    [id |-> nextToken + 1,
     userId |-> params.userId,
     clientId |-> params.clientId,
     scopes |-> params.scopes,
     token |-> hashToken(AccessPlain[nextToken + 1]),
     refreshToken |-> IF withRefresh
                      THEN Some(hashToken(RefreshPlain[nextToken + 1])) ELSE NULL,
     expiresAt |-> now + config.accessTokenLifetime,
     refreshExpiresAt |-> IF withRefresh
                          THEN Some(now + config.refreshTokenLifetime) ELSE NULL,
     lastUsedAt |-> NULL,
     revokedAt |-> NULL,
     createdAt |-> now]

\* scopes.join(' '): the names with a space between neighbours.
JoinScopes(scopes) ==
    [i \in 1..(2 * Len(scopes) - 1) |->
        IF i % 2 = 1 THEN scopes[(i + 1) \div 2] ELSE " "]

\* tokenResponse(): the success envelope for a created row.
tokenResponse(row) ==
    [kind |-> "json", status |-> 200, error |-> "", why |-> "",
     access_token |-> AccessPlain[row.id],
     token_type |-> "Bearer",
     refresh_token |-> IF row.refreshToken # NULL THEN RefreshPlain[row.id] ELSE Absent,
     scope |-> JoinScopes(row.scopes),
     expires_in |-> row.expiresAt - now]

\* OAuthToken.validateRefreshToken: the row, or NULL when absent, revoked or expired.
OAuthToken_validateRefreshToken(plainRefresh) ==
    LET rows == {t \in tokens : t.refreshToken = Some(hashToken(plainRefresh))} IN
    IF rows = {} THEN NULL
    ELSE LET record == CHOOSE t \in rows : TRUE IN
         IF record.revokedAt # NULL THEN NULL
         ELSE IF record.refreshExpiresAt # NULL /\ ValueOf(record.refreshExpiresAt) < now
             THEN NULL
         ELSE Some(record)

\* validate without its revocation check.
OAuthToken_validate_revoked(plainToken) ==
    LET rows == {t \in tokens : t.token = hashToken(plainToken)} IN
    IF rows = {} THEN NULL
    ELSE LET record == CHOOSE t \in rows : TRUE IN
         IF record.expiresAt < now THEN NULL
         ELSE Some(record)

\* OAuthToken.validate: the row, or NULL when absent, revoked or expired.
OAuthToken_validate(plainToken) ==
    LET rows == {t \in tokens : t.token = hashToken(plainToken)} IN
    IF rows = {} THEN NULL
    ELSE LET record == CHOOSE t \in rows : TRUE IN
         IF record.revokedAt # NULL THEN NULL
         ELSE IF record.expiresAt < now THEN NULL
         ELSE Some(record)

\* A revoke that updates nothing.
OAuthToken_revoke_nothing(id) == tokens

\* OAuthToken.revoke: revoked_at = NOW() on the row with that id.
OAuthToken_revoke(id) ==
    {IF t.id = id THEN [t EXCEPT !.revokedAt = Some(now)] ELSE t : t \in tokens}

\* Requests being handled; each may still insert one token row.
InFlight == {p \in Procs : pc[p] \notin {"idle", "done"}}
CanStart == nextToken + Cardinality(InFlight) < MaxTokens

\* The application calls OAuthToken.create(params).
CreateToken(params) ==
    /\ CanStart
    /\ tokens' = tokens \cup {OAuthToken_row(params)}
    /\ nextToken' = nextToken + 1
    /\ UNCHANGED <<clients, codes, nextCode, envVars, session, procVars>>

\* The application calls OAuthToken.revoke(id).
RevokeToken(id) ==
    /\ tokens' = OAuthToken_revoke(id)
    /\ UNCHANGED <<clients, codes, nextCode, nextToken, envVars, session, procVars>>

\* A caller (the oauth middleware, the introspection endpoint) calls
\* OAuthToken.validate(plainToken): for a valid token the UPDATE of last_used_at
\* is sent off without being awaited.
ValidateToken(plainToken) ==
    /\ LET found == OAuthToken_validate(plainToken) IN
       pendingTouch' = IF found = NULL THEN pendingTouch
                       ELSE pendingTouch \cup {ValueOf(found).id}
    /\ UNCHANGED <<dbVars, envVars, session, pc, loc, resp>>

\* An update that writes the whole record back as validate read it, not
\* revoked, instead of the one column.
TouchLastUsed_wholeRecord(id) ==
    /\ id \in pendingTouch
    /\ pendingTouch' = pendingTouch \ {id}
    /\ tokens' = {IF t.id = id
                     THEN [t EXCEPT !.lastUsedAt = Some(now), !.revokedAt = NULL]
                     ELSE t : t \in tokens}
    /\ UNCHANGED <<clients, codes, nextCode, nextToken, envVars, session,
                   pc, loc, resp>>

\* The UPDATE of last_used_at sent off by validate reaches the database.
TouchLastUsed(id) ==
    /\ id \in pendingTouch
    /\ pendingTouch' = pendingTouch \ {id}
    /\ tokens' = {IF t.id = id THEN [t EXCEPT !.lastUsedAt = Some(now)] ELSE t :
                    t \in tokens}
    /\ UNCHANGED <<clients, codes, nextCode, nextToken, envVars, session,
                   pc, loc, resp>>

\* OAuthToken.revokeAllFor(userId)
RevokeAllFor(userId) ==
    /\ tokens' = {IF t.userId = Some(userId) /\ t.revokedAt = NULL
                  THEN [t EXCEPT !.revokedAt = Some(now)] ELSE t : t \in tokens}
    /\ UNCHANGED <<clients, codes, nextCode, nextToken, envVars, session, procVars>>

\* OAuthToken.revokeAllForClient(userId, clientId)
RevokeAllForClient(userId, clientId) ==
    /\ tokens' = {IF t.userId = Some(userId) /\ t.clientId = clientId
                     /\ t.revokedAt = NULL
                  THEN [t EXCEPT !.revokedAt = Some(now)] ELSE t : t \in tokens}
    /\ UNCHANGED <<clients, codes, nextCode, nextToken, envVars, session, procVars>>

\* A prune that also deletes the rows expiring at this instant.
PruneTokens_atExpiry(revokedOlderThanDays) ==
    /\ LET cutoff == now - revokedOlderThanDays IN
       tokens' = {t \in tokens :
                    ~(\/ t.expiresAt <= now /\ t.refreshExpiresAt = NULL
                      \/ t.refreshExpiresAt # NULL /\ ValueOf(t.refreshExpiresAt) <= now
                      \/ t.revokedAt # NULL /\ ValueOf(t.revokedAt) < cutoff)}
    /\ UNCHANGED <<clients, codes, nextCode, nextToken, envVars, session, procVars>>

\* OAuthToken.prune(revokedOlderThanDays): delete expired rows and rows revoked
\* before the cutoff.
PruneTokens(revokedOlderThanDays) ==
    /\ LET cutoff == now - revokedOlderThanDays IN
       tokens' = {t \in tokens :
                    ~(\/ t.expiresAt < now /\ t.refreshExpiresAt = NULL
                      \/ t.refreshExpiresAt # NULL /\ ValueOf(t.refreshExpiresAt) < now
                      \/ t.revokedAt # NULL /\ ValueOf(t.revokedAt) < cutoff)}
    /\ UNCHANGED <<clients, codes, nextCode, nextToken, envVars, session, procVars>>

\* ctx.json({}) / ctx.json(fields): a 200 with those fields.
OkJson(fields) ==
    [kind |-> "json", status |-> 200, error |-> "", why |-> "", fields |-> fields]

\* ------------------------------------------------------------- middleware

\* An Authorization header: sent or not, and its text as the sequence of its
\* lexemes (the scheme, a space, the credentials).
NoHeader == [sent |-> FALSE, text |-> <<>>]
HeaderText(t) == [sent |-> TRUE, text |-> t]
\* header.startsWith('Bearer ') of a header that is sent and not empty.
startsWithBearer(header) ==
    header.sent /\ Len(header.text) >= 2
    /\ header.text[1] = "Bearer" /\ header.text[2] = " "
\* header.slice(7)
sliceBearer(header) == IF Len(header.text) >= 3 THEN header.text[3] ELSE ""

\* The context state bag before any middleware has run.
EmptyContext == [user |-> NULL, oauth_token |-> NULL, oauth_client |-> NULL]

\* The guard with every well-formed header accepted as authenticated by the
\* first token row.
oauth_unvalidated(header, ownerFound) ==
    IF ~startsWithBearer(header) \/ tokens = {} THEN
        [next |-> FALSE, resp |-> ErrorJson(401, "unauthenticated", "bearer_required"),
         touched |-> {}]
    ELSE LET record == CHOOSE t \in tokens : \A o \in tokens : t.id <= o.id IN
         [next |-> TRUE, touched |-> {record.id},
          ctx |-> [user |-> NULL, oauth_token |-> Some(record),
                   oauth_client |-> OAuthClient_find(record.clientId)]]

\* oauth(): whether next() is called and with what on the context, or the 401
\* returned.  ownerFound is what actions.findById answers for the token's user.
oauth(header, ownerFound) ==
    LET tokenData == OAuthToken_validate(sliceBearer(header))
        record == ValueOf(tokenData)
    IN
    IF ~startsWithBearer(header) THEN
        [next |-> FALSE, resp |-> ErrorJson(401, "unauthenticated", "bearer_required"),
         touched |-> {}]
    ELSE IF tokenData = NULL THEN
        [next |-> FALSE, resp |-> ErrorJson(401, "invalid_token", "invalid_or_expired"),
         touched |-> {}]
    ELSE IF TruthyCol(record.userId) /\ ~ownerFound THEN
        [next |-> FALSE, resp |-> ErrorJson(401, "invalid_token", "owner_gone"),
         touched |-> {record.id}]
    ELSE [next |-> TRUE, touched |-> {record.id},
          ctx |-> [user |-> IF TruthyCol(record.userId)
                            THEN Some([id |-> ValueOf(record.userId)]) ELSE NULL,
                   oauth_token |-> tokenData,
                   oauth_client |-> OAuthClient_find(record.clientId)]]

\* missing.join(', ')
JoinComma(names) ==
    [i \in 1..(2 * Len(names) - 1) |->
        IF i % 2 = 1 THEN names[(i + 1) \div 2] ELSE ", "]

\* The scope check with nothing required.
scopesMiddleware_none(required, ctx) == [next |-> TRUE]

\* scopes(...required): whether next() is called, or the 401 / 403 returned.
scopesMiddleware(required, ctx) ==
    IF ctx.oauth_token = NULL THEN
        [next |-> FALSE, resp |-> ErrorJson(401, "unauthenticated", "token_required")]
    ELSE LET token == ValueOf(ctx.oauth_token)
             missing == SelectSeq(required, LAMBDA s : s \notin Range(token.scopes))
         IN IF Len(missing) > 0 THEN
                [next |-> FALSE,
                 resp |-> [kind |-> "json", status |-> 403, error |-> "insufficient_scope",
                           why |-> JoinComma(missing)]]
            ELSE [next |-> TRUE]

\* A route is compose([oauth(), scopes(...required)], handler), with either
\* middleware optional: guard says whether oauth() is on it, required is NULL
\* or the scopes of scopes().
\* A request for the route arrives at process p; oauth() runs if present.
ApiRequest(p, route, header, ownerFound) ==
    /\ pc[p] = "idle"
    /\ LET req == [grant |-> "oauth()", route |-> route, header |-> header,
                   ownerFound |-> ownerFound, ctx |-> EmptyContext]
           out == oauth(header, ownerFound)
           after == IF route.required # NULL THEN "scopes" ELSE "handler"
       IN IF ~route.guard THEN
              Goto(p, after, req) /\ UNCHANGED pendingTouch
          ELSE /\ pendingTouch' = pendingTouch \cup out.touched
               /\ IF out.next THEN Goto(p, after, [req EXCEPT !.ctx = out.ctx])
                  ELSE Finish(p, req, out.resp)
    /\ UNCHANGED <<dbVars, envVars, session>>

\* The scopes() middleware of the route runs.
ScopesCheck(p) ==
    /\ pc[p] = "scopes"
    /\ LET out == scopesMiddleware(ValueOf(loc[p].route.required), loc[p].ctx) IN
       IF out.next THEN Goto(p, "handler", loc[p])
       ELSE Finish(p, loc[p], out.resp)
    /\ UNCHANGED <<dbVars, envVars, session, pendingTouch>>

\* The downstream handler of the route runs and answers.
RouteHandler(p) ==
    /\ pc[p] = "handler"
    /\ Finish(p, loc[p], OkJson([ok |-> TRUE]))
    /\ UNCHANGED <<dbVars, envVars, session, pendingTouch>>

\* ----------------------------------------------------- POST /oauth/revoke

\* The client authentication of /revoke and /introspect with every client id
\* accepted.
clientAuthFails_never(body) == FALSE

\* A client authentication that requires the secret of a confidential client.
clientAuthFails_secretRequired(body) ==
    IF ~Truthy(body.client_id) THEN FALSE
    ELSE LET found == OAuthClient_find(body.client_id) IN
         IF found = NULL THEN TRUE
         ELSE IF ValueOf(found).revoked THEN TRUE
         ELSE IF ValueOf(found).confidential
             THEN ~OAuthClient_verifySecret(ValueOf(found), body.client_secret)
         ELSE FALSE

\* The client authentication of /revoke and /introspect: it fails when a
\* client_id is sent and names no client or a revoked one, or when a secret is
\* sent for a confidential client and does not verify.
clientAuthFails(body) ==
    IF ~Truthy(body.client_id) THEN FALSE
    ELSE LET found == OAuthClient_find(body.client_id) IN
         IF found = NULL THEN TRUE
         ELSE IF ValueOf(found).revoked THEN TRUE
         ELSE IF ValueOf(found).confidential /\ Truthy(body.client_secret)
             THEN ~OAuthClient_verifySecret(ValueOf(found), body.client_secret)
         ELSE FALSE

\* A revokeHandler that tries the token as an access token only.
revokeHandler_accessOnly(body) ==
    LET tokenData == OAuthToken_validate(body.token) IN
    IF ~Truthy(body.token) THEN
        [resp |-> InvalidRequestError("token"), tokens |-> tokens, touched |-> {},
         revoked |-> {}]
    ELSE IF clientAuthFails(body) THEN
        [resp |-> InvalidClientError("client"), tokens |-> tokens, touched |-> {},
         revoked |-> {}]
    ELSE IF tokenData # NULL THEN
        [resp |-> OkJson(<<>>), tokens |-> OAuthToken_revoke(ValueOf(tokenData).id),
         touched |-> {ValueOf(tokenData).id},
         revoked |-> {ValueOf(tokenData).id}]
    ELSE [resp |-> OkJson(<<>>), tokens |-> tokens, touched |-> {},
         revoked |-> {}]

\* revokeHandler: the response, the token table afterwards, the ids whose
\* last_used_at update validate sent off and the ids passed to
\* OAuthToken.revoke (tokenData.id or refreshData.id).
revokeHandler(body) ==
    LET tokenData == OAuthToken_validate(body.token)
        refreshData == OAuthToken_validateRefreshToken(body.token)
    IN
    IF ~Truthy(body.token) THEN
        [resp |-> InvalidRequestError("token"), tokens |-> tokens, touched |-> {},
         revoked |-> {}]
    ELSE IF clientAuthFails(body) THEN
        [resp |-> InvalidClientError("client"), tokens |-> tokens, touched |-> {},
         revoked |-> {}]
    ELSE IF tokenData # NULL THEN
        [resp |-> OkJson(<<>>), tokens |-> OAuthToken_revoke(ValueOf(tokenData).id),
         touched |-> {ValueOf(tokenData).id},
         revoked |-> {ValueOf(tokenData).id}]
    ELSE IF refreshData # NULL THEN
        [resp |-> OkJson(<<>>), tokens |-> OAuthToken_revoke(ValueOf(refreshData).id),
         touched |-> {}, revoked |-> {ValueOf(refreshData).id}]
    ELSE [resp |-> OkJson(<<>>), tokens |-> tokens, touched |-> {},
         revoked |-> {}]

\* POST /oauth/revoke handled by process p.
RevokeRequest(p, body) ==
    /\ pc[p] = "idle"
    /\ LET out == revokeHandler(body) IN
       /\ tokens' = out.tokens
       /\ pendingTouch' = pendingTouch \cup out.touched
       /\ Finish(p, [grant |-> "POST /revoke", body |-> body,
                      revoked |-> out.revoked], out.resp)
    /\ UNCHANGED <<clients, codes, nextCode, nextToken, envVars, session>>

\* DELETE /oauth/personal-tokens/:id handled by process p for the user the
\* auth() middleware put in the context: OAuthToken.revoke(ctx.params.id).
RevokePersonalToken(p, user, tokenId) ==
    /\ pc[p] = "idle"
    /\ tokens' = OAuthToken_revoke(tokenId)
    /\ Finish(p, [grant |-> "DELETE /personal-tokens", user |-> user,
                  id |-> tokenId],
              OkJson([message |-> "Token revoked."]))
    /\ UNCHANGED <<clients, codes, nextCode, nextToken, envVars, session,
                   pendingTouch>>

\* ------------------------------------------------- POST /oauth/introspect

\* Math.floor(date.getTime() / 1000) of a time given in clock units of a
\* minute (lifetimes are minutes, turned into milliseconds by * 60_000).
MsPerUnit == 60000
epochSeconds(t) == (t * MsPerUnit) \div 1000

\* introspectHandler: the response and the ids whose last_used_at update
\* validate sent off.  JSON leaves out a field whose value is undefined.
introspectHandler(body) ==
    LET tokenData == OAuthToken_validate(body.token)
        record == ValueOf(tokenData)
        metadata == [active |-> TRUE,
                     scope |-> JoinScopes(record.scopes),
                     client_id |-> record.clientId,
                     token_type |-> "Bearer",
                     exp |-> epochSeconds(record.expiresAt),
                     iat |-> epochSeconds(record.createdAt)]
    IN
    IF ~Truthy(body.token) THEN
        [resp |-> InvalidRequestError("token"), touched |-> {}]
    ELSE IF clientAuthFails(body) THEN
        [resp |-> InvalidClientError("client"), touched |-> {}]
    ELSE IF tokenData = NULL THEN
        [resp |-> OkJson([active |-> FALSE]), touched |-> {}]
    ELSE IF record.userId = NULL THEN
        [resp |-> OkJson(metadata), touched |-> {record.id}]
    ELSE [resp |-> OkJson([f \in DOMAIN metadata \cup {"sub"} |->
                              IF f = "sub" THEN ValueOf(record.userId) ELSE metadata[f]]),
          touched |-> {record.id}]

\* POST /oauth/introspect handled by process p.
IntrospectRequest(p, body) ==
    /\ pc[p] = "idle"
    /\ LET out == introspectHandler(body) IN
       /\ pendingTouch' = pendingTouch \cup out.touched
       /\ Finish(p, [grant |-> "POST /introspect", body |-> body], out.resp)
    /\ UNCHANGED <<dbVars, envVars, session>>

\* ------------------------------------------------------ POST /oauth/token

\* The client lookup without the check of the revoked flag.
authenticateClient_anyStatus(body, after) ==
    LET found == OAuthClient_find(body.client_id)
        client == ValueOf(found)
    IN IF found = NULL THEN
           [next |-> "done", resp |-> InvalidClientError("client")]
       ELSE IF client.confidential THEN
           IF ~Truthy(body.client_secret) THEN
               [next |-> "done", resp |-> InvalidClientError("secret_required")]
           ELSE [next |-> "verify", client |-> client]
       ELSE [next |-> after, client |-> client]

\* Client lookup and the secret-presence check shared by the authorization_code
\* and refresh_token grants: the response that ends the request, or the next
\* statement (verify the secret, or `after` for a public client).
authenticateClient(body, after) ==
    LET found == OAuthClient_find(body.client_id)
        client == ValueOf(found)
    IN IF found = NULL \/ client.revoked THEN
           [next |-> "done", resp |-> InvalidClientError("client")]
       ELSE IF client.confidential THEN
           IF ~Truthy(body.client_secret) THEN
               [next |-> "done", resp |-> InvalidClientError("secret_required")]
           ELSE [next |-> "verify", client |-> client]
       ELSE [next |-> after, client |-> client]

\* handleAuthorizationCode up to and including OAuthClient.find.
handleAuthorizationCode_find(body) ==
    IF ~Truthy(body.code) \/ ~Truthy(body.redirect_uri) \/ ~Truthy(body.client_id) THEN
        [next |-> "done", resp |-> InvalidRequestError("code_redirect_uri_client_id")]
    ELSE authenticateClient(body, "ac_select")

\* handleRefreshToken up to and including OAuthClient.find.
handleRefreshToken_find(body) ==
    IF ~Truthy(body.refresh_token) \/ ~Truthy(body.client_id) THEN
        [next |-> "done", resp |-> InvalidRequestError("refresh_token_client_id")]
    ELSE authenticateClient(body, "rt_validate")

\* The lookup of handleClientCredentials without the confidential check.
handleClientCredentials_find_anyKind(body) ==
    LET found == OAuthClient_find(body.client_id)
        client == ValueOf(found)
    IN IF ~Truthy(body.client_id) \/ ~Truthy(body.client_secret) THEN
           [next |-> "done", resp |-> InvalidRequestError("client_id_client_secret")]
       ELSE IF found = NULL \/ client.revoked THEN
           [next |-> "done", resp |-> InvalidClientError("client")]
       ELSE IF "client_credentials" \notin client.grantTypes THEN
           [next |-> "done", resp |-> InvalidGrantError("grant_not_supported")]
       ELSE [next |-> "cc_verify", client |-> client]

\* handleClientCredentials up to and including OAuthClient.find and the checks
\* on the client row.
handleClientCredentials_find(body) ==
    LET found == OAuthClient_find(body.client_id)
        client == ValueOf(found)
    IN IF ~Truthy(body.client_id) \/ ~Truthy(body.client_secret) THEN
           [next |-> "done", resp |-> InvalidRequestError("client_id_client_secret")]
       ELSE IF found = NULL \/ client.revoked THEN
           [next |-> "done", resp |-> InvalidClientError("client")]
       ELSE IF ~client.confidential THEN
           [next |-> "done", resp |-> InvalidClientError("confidential_required")]
       ELSE IF "client_credentials" \notin client.grantTypes THEN
           [next |-> "done", resp |-> InvalidGrantError("grant_not_supported")]
       ELSE [next |-> "cc_verify", client |-> client]

\* tokenHandler: dispatch on grant_type, then the grant's handler up to its
\* first database statement.
tokenHandler(body) ==
    IF ~Truthy(body.grant_type) THEN
        [next |-> "done", resp |-> InvalidRequestError("grant_type")]
    ELSE IF body.grant_type = "authorization_code" THEN
        handleAuthorizationCode_find(body)
    ELSE IF body.grant_type = "client_credentials" THEN
        handleClientCredentials_find(body)
    ELSE IF body.grant_type = "refresh_token" THEN
        handleRefreshToken_find(body)
    ELSE [next |-> "done", resp |-> UnsupportedGrantError]

\* A POST /oauth/token arrives at process p: parse, dispatch, look up the client.
TokenRequest(p, body) ==
    /\ pc[p] = "idle"
    /\ CanStart
    /\ LET out == tokenHandler(body) IN
       IF out.next = "done"
       THEN Finish(p, [grant |-> body.grant_type, body |-> body], out.resp)
       ELSE Goto(p, out.next, [grant |-> body.grant_type, body |-> body,
                               client |-> out.client])
    /\ UNCHANGED <<dbVars, envVars, session, pendingTouch>>

\* OAuthClient.verifySecret for a confidential client, in either grant.
VerifySecret(p) ==
    /\ pc[p] = "verify"
    /\ IF ~OAuthClient_verifySecret(loc[p].client, loc[p].body.client_secret)
       THEN Finish(p, loc[p], InvalidClientError("client"))
       ELSE Goto(p, IF loc[p].grant = "authorization_code" THEN "ac_select"
                    ELSE "rt_validate", loc[p])
    /\ UNCHANGED <<dbVars, envVars, session, pendingTouch>>

\* A consume that marks the selected row used before it checks it.
ConsumeSelect_markFirst(p) ==
    /\ pc[p] = "ac_select"
    /\ LET body == loc[p].body
           rows == AuthCode_select(body.code, body.client_id)
       IN IF rows = {} THEN
              /\ Finish(p, loc[p], InvalidGrantError("grant"))
              /\ UNCHANGED codes
          ELSE LET record == CHOOSE r \in rows : TRUE IN
               /\ codes' = AuthCode_markUsed(record.id)
               /\ IF AuthCode_accepts(record, body.redirect_uri, body.code_verifier)
                  THEN Goto(p, "ac_update", [grant |-> loc[p].grant, body |-> body,
                                             client |-> loc[p].client,
                                             codeData |-> record])
                  ELSE Finish(p, loc[p], InvalidGrantError("grant"))
    /\ UNCHANGED <<clients, tokens, nextCode, nextToken, envVars, session,
                   pendingTouch>>

\* AuthCode.consume, first statement: SELECT the row and check it.
ConsumeSelect(p) ==
    /\ pc[p] = "ac_select"
    /\ LET body == loc[p].body
           rows == AuthCode_select(body.code, body.client_id)
       IN IF rows = {} THEN Finish(p, loc[p], InvalidGrantError("grant"))
          ELSE LET record == CHOOSE r \in rows : TRUE IN
               IF AuthCode_accepts(record, body.redirect_uri, body.code_verifier)
               THEN Goto(p, "ac_update", [grant |-> loc[p].grant, body |-> body,
                                          client |-> loc[p].client,
                                          codeData |-> record])
               ELSE Finish(p, loc[p], InvalidGrantError("grant"))
    /\ UNCHANGED <<dbVars, envVars, session, pendingTouch>>

\* AuthCode.consume, second statement: UPDATE used_at; consume returns the row.
ConsumeUpdate(p) ==
    /\ pc[p] = "ac_update"
    /\ codes' = AuthCode_markUsed(loc[p].codeData.id)
    /\ Goto(p, "ac_create", loc[p])
    /\ UNCHANGED <<clients, tokens, nextCode, nextToken, envVars, session,
                   pendingTouch>>

\* Parameters that ask for a refresh token whatever the client's grant types.
exchangeParams_alwaysRefresh(client, codeData) ==
    [userId |-> Some(codeData.userId),
     clientId |-> client.id,
     scopes |-> codeData.scopes,
     includeRefreshToken |-> TRUE]

\* The parameters handleAuthorizationCode passes to OAuthToken.create.
exchangeParams(client, codeData) ==
    [userId |-> Some(codeData.userId),
     clientId |-> client.id,
     scopes |-> codeData.scopes,
     includeRefreshToken |-> "refresh_token" \in client.grantTypes]

\* handleAuthorizationCode, last statement: OAuthToken.create and the response.
ExchangeCreate(p) ==
    /\ pc[p] = "ac_create"
    /\ LET row == OAuthToken_row(exchangeParams(loc[p].client, loc[p].codeData)) IN
       /\ tokens' = tokens \cup {row}
       /\ nextToken' = nextToken + 1
       /\ Finish(p, loc[p], tokenResponse(row))
    /\ UNCHANGED <<clients, codes, nextCode, envVars, session, pendingTouch>>

\* handleClientCredentials: OAuthClient.verifySecret, then ScopeRegistry.validate.
ClientCredentialsVerify(p) ==
    /\ pc[p] = "cc_verify"
    /\ LET body == loc[p].body
           requestedScopes ==
               IF TruthyScope(body.scope) THEN SplitScope(body.scope) ELSE <<>>
           validated == ScopeRegistry_validate(requestedScopes, loc[p].client.scopes,
                                               config.defaultScopes)
       IN IF ~OAuthClient_verifySecret(loc[p].client, body.client_secret) THEN
              Finish(p, loc[p], InvalidClientError("client"))
          ELSE IF ~validated.ok THEN
              Finish(p, loc[p], InvalidScopeError(validated.why))
          ELSE Goto(p, "cc_create", [grant |-> loc[p].grant, body |-> body,
                                     client |-> loc[p].client,
                                     scopes |-> validated.scopes])
    /\ UNCHANGED <<dbVars, envVars, session, pendingTouch>>

\* handleClientCredentials, last statement: OAuthToken.create without user and
\* without refresh token, and the response.
ClientCredentialsCreate(p) ==
    /\ pc[p] = "cc_create"
    /\ LET row == OAuthToken_row([userId |-> NULL,
                                  clientId |-> loc[p].body.client_id,
                                  scopes |-> loc[p].scopes,
                                  includeRefreshToken |-> FALSE]) IN
       /\ tokens' = tokens \cup {row}
       /\ nextToken' = nextToken + 1
       /\ Finish(p, loc[p], tokenResponse(row))
    /\ UNCHANGED <<clients, codes, nextCode, envVars, session, pendingTouch>>

\* Scope selection without the widening check.
narrowScopes_unchecked(oldToken, scope) ==
    IF TruthyScope(scope) THEN [ok |-> TRUE, scopes |-> SplitScope(scope)]
    ELSE [ok |-> TRUE, scopes |-> oldToken.scopes]

\* handleRefreshToken's scope narrowing: the scopes of the new pair, or the
\* names that would widen the old token's scopes.
narrowScopes(oldToken, scope) ==
    IF TruthyScope(scope) THEN
        LET requested == SplitScope(scope)
            widened == SelectSeq(requested, LAMBDA s : s \notin Range(oldToken.scopes))
        IN IF Len(widened) > 0 THEN [ok |-> FALSE, widened |-> widened]
           ELSE [ok |-> TRUE, scopes |-> requested]
    ELSE [ok |-> TRUE, scopes |-> oldToken.scopes]

\* An acceptance that does not compare the client ids.
refreshAccepted_anyClient(found, clientId) == found # NULL

\* The refresh token is accepted for this client: validateRefreshToken found
\* a row, and it was issued to the requesting client.
refreshAccepted(found, clientId) ==
    ~(found = NULL \/ ValueOf(found).clientId # clientId)

\* handleRefreshToken: OAuthToken.validateRefreshToken, then scope narrowing.
RefreshValidate(p) ==
    /\ pc[p] = "rt_validate"
    /\ LET body == loc[p].body
           found == OAuthToken_validateRefreshToken(body.refresh_token)
           oldToken == ValueOf(found)
           narrowed == narrowScopes(oldToken, body.scope)
       IN IF ~refreshAccepted(found, body.client_id) THEN
              Finish(p, loc[p], InvalidGrantError("grant"))
          ELSE IF ~narrowed.ok THEN
              Finish(p, loc[p], InvalidRequestError("widen_scopes"))
          ELSE Goto(p, "rt_revoke", [grant |-> loc[p].grant, body |-> body,
                                     client |-> loc[p].client,
                                     oldToken |-> oldToken,
                                     scopes |-> narrowed.scopes])
    /\ UNCHANGED <<dbVars, envVars, session, pendingTouch>>

\* handleRefreshToken: OAuthToken.revoke(oldToken.id), the rotation.
RefreshRevoke(p) ==
    /\ pc[p] = "rt_revoke"
    /\ tokens' = OAuthToken_revoke(loc[p].oldToken.id)
    /\ Goto(p, "rt_create", loc[p])
    /\ UNCHANGED <<clients, codes, nextCode, nextToken, envVars, session,
                   pendingTouch>>

\* The parameters handleRefreshToken passes to OAuthToken.create.
refreshParams(body, oldToken, scopes) ==
    [userId |-> oldToken.userId,
     clientId |-> body.client_id,
     scopes |-> scopes,
     includeRefreshToken |-> TRUE]

\* handleRefreshToken, last statement: OAuthToken.create and the response.
RefreshCreate(p) ==
    /\ pc[p] = "rt_create"
    /\ LET row == OAuthToken_row(refreshParams(loc[p].body, loc[p].oldToken,
                                               loc[p].scopes)) IN
       /\ tokens' = tokens \cup {row}
       /\ nextToken' = nextToken + 1
       /\ Finish(p, loc[p], tokenResponse(row))
    /\ UNCHANGED <<clients, codes, nextCode, envVars, session, pendingTouch>>

\* handleRefreshToken, last statement, when OAuthToken.create rejects (the
\* INSERT fails): the handler throws and no row is added.
RefreshCreateFails(p) ==
    /\ pc[p] = "rt_create"
    /\ Finish(p, loc[p], ErrorJson(500, "server_error", "create_failed"))
    /\ UNCHANGED <<dbVars, envVars, session, pendingTouch>>

\* The response has been sent; the process is free for the next request.
Return(p) ==
    /\ pc[p] = "done"
    /\ pc' = [pc EXCEPT ![p] = "idle"]
    /\ loc' = [loc EXCEPT ![p] = NoLocals]
    /\ resp' = [resp EXCEPT ![p] = NoResponse]
    /\ UNCHANGED <<dbVars, envVars, session, pendingTouch>>

\* Time passes: d clock units.
Tick(d) ==
    /\ now + d <= MaxTime
    /\ now' = now + d
    /\ UNCHANGED <<config, scopeRegistry, dbVars, session, procVars>>

\* ---------------------------------------------------------- initial state

\* Lifetimes of the configuration, in clock units.
authCodeLifetime == 1
accessTokenLifetime == 1
refreshTokenLifetime == 2
pruneRevokedAfterDays == 1

\* OAuth2Manager's configuration after the constructor.
InitConfig ==
    [authCodeLifetime |-> authCodeLifetime,
     accessTokenLifetime |-> accessTokenLifetime,
     refreshTokenLifetime |-> refreshTokenLifetime,
     pruneRevokedAfterDays |-> pruneRevokedAfterDays,
     defaultScopes |-> <<>>,
     personalAccessClient |-> NULL,
     renderAuthorization |-> FALSE]

\* The row OAuthClient.create inserts, with its defaults for the grant types.
OAuthClient_row(id, confidential, firstParty, redirectUris, scopes) ==
    [id |-> id,
     secret |-> IF confidential THEN Some(hashSecret(SecretPlain(id))) ELSE NULL,
     redirectUris |-> redirectUris,
     scopes |-> scopes,
     grantTypes |-> {"authorization_code", "refresh_token"},
     confidential |-> confidential,
     firstParty |-> firstParty,
     revoked |-> FALSE]

\* The registered clients: c1 confidential with one redirect URI and any scope,
\* c2 public with two redirect URIs and the scope allow-list [read].
ClientTable(firstParty1, firstParty2) ==
    [c \in ClientIds |->
        IF c = "c1" THEN OAuthClient_row(c, TRUE, firstParty1, {"u1"}, NULL)
        ELSE OAuthClient_row(c, FALSE, firstParty2, {"u1", "u2"}, Some(<<"read">>))]

\* The server after boot and client registration: empty code and token tables.
InitWith(clientTables) ==
    /\ now = 0
    /\ config = InitConfig
    /\ scopeRegistry = {"read", "write"}
    /\ clients \in clientTables
    /\ codes = {}
    /\ tokens = {}
    /\ nextCode = 0
    /\ nextToken = 0
    /\ session = [u \in Users |-> NoRequest]
    /\ pendingTouch = {}
    /\ pc = [p \in Procs |-> "idle"]
    /\ loc = [p \in Procs |-> NoLocals]
    /\ resp = [p \in Procs |-> NoResponse]

\* ------------------------------------------------ the authorization code flow

\* An /authorize query.
query(c, u, sc, st, ch, m) ==
    [response_type |-> "code", client_id |-> c, redirect_uri |-> u,
     scope |-> sc, state |-> st, code_challenge |-> ch,
     code_challenge_method |-> m]

\* The confidential client c1 asks without PKCE or with S256; the public client
\* c2 asks without PKCE, with a plain challenge, or with S256 and its second
\* redirect URI; and c1 asks with a redirect URI that is not its own.
CodeQueries ==
    {query(a[1], a[2], NoScope, Absent, a[3], a[4]) :
        a \in {<<"c1", "u1", Absent, Absent>>,
               <<"c1", "u1", S256("v1"), "S256">>,
               <<"c1", "u2", Absent, Absent>>,
               <<"c2", "u1", Absent, Absent>>,
               <<"c2", "u1", "v1", Absent>>,
               <<"c2", "u2", S256("v1"), "S256">>}}

\* The plaintext codes handed out so far.
IssuedCodes == {CodePlain[i] : i \in 1..nextCode}

exchange(k, u, c, s, v) ==
    [grant_type |-> "authorization_code", code |-> k, redirect_uri |-> u,
     client_id |-> c, client_secret |-> s, code_verifier |-> v]

\* The secret a well-behaved client sends: its own, or none if it is public.
OwnSecret(c) == IF clients[c].confidential THEN SecretPlain(c) ELSE Absent

\* Exchanges of an issued code under either client id, either redirect URI and
\* any verifier, with the client's own secret; and single exchanges with a code
\* that was never issued, a wrong secret and no secret.
ExchangeBodies ==
    {exchange(k, u, c, OwnSecret(c), v) :
        k \in IssuedCodes, u \in Uris, c \in ClientIds,
        v \in {Absent, "v1", "v2"}}
    \cup {exchange("kX", "u1", c, OwnSecret(c), Absent) : c \in ClientIds}
    \cup {exchange(CodePlain[1], "u1", "c1", s, Absent) : s \in {"bad", Absent}}

\* The one process of a sequential run.
Solo == {1}

\* c1 asks for consent; c2 is first-party or not.
Init == InitWith({ClientTable(FALSE, f2) : f2 \in BOOLEAN})

Next ==
    \/ \E p \in Solo, u \in Users, q \in CodeQueries : AuthorizeGet(p, u, q)
    \/ \E p \in Solo, u \in Users, approved \in BOOLEAN : AuthorizePost(p, u, approved)
    \/ \E p \in Solo, body \in ExchangeBodies : TokenRequest(p, body)
    \/ \E p \in Solo : VerifySecret(p)
    \/ \E p \in Solo : ConsumeSelect(p)
    \/ \E p \in Solo : ConsumeUpdate(p)
    \/ \E p \in Solo : ExchangeCreate(p)
    \/ \E p \in Solo : Return(p)
    \/ AuthCode_prune
    \/ \E d \in {2} : Tick(d)

Spec == Init /\ [][Next]_vars

\* ------------------------------------------- concurrent exchanges of a code

\* Both clients are first-party: a GET /authorize issues the code at once.
InitRace == InitWith({ClientTable(TRUE, TRUE)})

RaceQueries ==
    {query("c1", "u1", NoScope, Absent, Absent, Absent),
     query("c2", "u1", NoScope, Absent, "v1", Absent)}

\* Well-formed exchanges of an issued code by either client.
RaceBodies ==
    {exchange(k, "u1", c, OwnSecret(c), IF c = "c2" THEN "v1" ELSE Absent) :
        k \in IssuedCodes, c \in ClientIds}

\* Requests are handled concurrently; every database statement is one step.
NextRace ==
    \/ \E p \in Procs, u \in Users, q \in RaceQueries : AuthorizeGet(p, u, q)
    \/ \E p \in Procs, body \in RaceBodies : TokenRequest(p, body)
    \/ \E p \in Procs : VerifySecret(p)
    \/ \E p \in Procs : ConsumeSelect(p)
    \/ \E p \in Procs : ConsumeUpdate(p)
    \/ \E p \in Procs : ExchangeCreate(p)
    \/ \E p \in Procs : Return(p)

SpecRace == InitRace /\ [][NextRace]_vars

\* ------------------------------------------------------------ refresh flow

\* Neither client is first-party; tokens come from OAuthToken.create.
InitRefresh == InitWith({ClientTable(FALSE, FALSE)})

\* Token pairs of alice: both scopes for c1, one scope for c2.
TokenParams ==
    {[userId |-> Some("alice"), clientId |-> a[1], scopes |-> a[2],
      includeRefreshToken |-> TRUE] :
        a \in {<<"c1", <<"read", "write">> >>, <<"c2", <<"read">> >>}}

\* The refresh tokens handed out so far.
IssuedRefresh == {RefreshPlain[i] : i \in 1..nextToken}

refresh(r, c, s, sc) ==
    [grant_type |-> "refresh_token", refresh_token |-> r, client_id |-> c,
     client_secret |-> s, scope |-> sc]

\* The scope parameters of refresh requests: none, blank, one scope, both
\* scopes, and a scope no token of TokenParams has.
RefreshScopes ==
    {NoScope, ScopeText(<<" ">>), ScopeText(<<"read">>),
     ScopeText(<<"read", " ", "write">>), ScopeText(<<"read", " ", "admin">>)}

RefreshBodies ==
    {refresh(r, c, OwnSecret(c), sc) :
        r \in IssuedRefresh, c \in ClientIds, sc \in RefreshScopes}
    \cup {refresh("rX", c, OwnSecret(c), NoScope) : c \in ClientIds}
    \cup {refresh(RefreshPlain[1], "c1", "bad", NoScope)}

NextRefresh ==
    \/ \E params \in TokenParams : CreateToken(params)
    \/ \E p \in Solo, body \in RefreshBodies : TokenRequest(p, body)
    \/ \E p \in Solo : VerifySecret(p)
    \/ \E p \in Solo : RefreshValidate(p)
    \/ \E p \in Solo : RefreshRevoke(p)
    \/ \E p \in Solo : RefreshCreate(p)
    \/ \E p \in Solo : RefreshCreateFails(p)
    \/ \E p \in Solo : Return(p)
    \/ \E d \in {2} : Tick(d)

SpecRefresh == InitRefresh /\ [][NextRefresh]_vars

\* ------------------------------------------ concurrent refreshes of a token

\* Well-formed refresh requests of an issued refresh token by its client.
RaceRefreshBodies ==
    {refresh(RefreshPlain[t.id], t.clientId, OwnSecret(t.clientId), NoScope) :
        t \in tokens}

\* Refresh requests are handled concurrently, next to revocation requests of
\* the refresh token by its client; every database statement of the grant is
\* one step.
NextRefreshRace ==
    \/ \E params \in TokenParams : CreateToken(params)
    \/ \E p \in Procs, body \in RaceRefreshBodies : TokenRequest(p, body)
    \/ \E p \in Procs, body \in RaceRefreshBodies :
           RevokeRequest(p, [token |-> body.refresh_token,
                             client_id |-> body.client_id,
                             client_secret |-> body.client_secret])
    \/ \E p \in Procs : VerifySecret(p)
    \/ \E p \in Procs : RefreshValidate(p)
    \/ \E p \in Procs : RefreshRevoke(p)
    \/ \E p \in Procs : RefreshCreate(p)
    \/ \E p \in Procs : Return(p)

SpecRefreshRace == InitRefresh /\ [][NextRefreshRace]_vars

\* ------------------------------------------------------- the token table

\* A token pair of alice and an access token without user, both for c1.
TableParams ==
    {[userId |-> u, clientId |-> "c1", scopes |-> <<"read">>,
      includeRefreshToken |-> TRUE] : u \in {Some("alice"), NULL}}

\* The access tokens handed out so far.
IssuedAccess == {AccessPlain[i] : i \in 1..nextToken}

\* Every operation of OAuthToken that reads or writes the table, called in
\* any order, while time passes.
NextTokens ==
    \/ \E params \in TableParams : CreateToken(params)
    \/ \E plain \in IssuedAccess \cup {"aX"} : ValidateToken(plain)
    \/ \E id \in 1..nextToken : TouchLastUsed(id)
    \/ \E id \in 1..nextToken : RevokeToken(id)
    \/ \E u \in Users : RevokeAllFor(u.id)
    \/ \E u \in Users, c \in ClientIds : RevokeAllForClient(u.id, c)
    \/ PruneTokens(config.pruneRevokedAfterDays)
    \/ \E d \in {2} : Tick(d)

SpecTokens == InitRefresh /\ [][NextTokens]_vars

\* ----------------------------------------------------- the authorize flow

\* Each client is first-party or not; or neither is and c1 is registered for
\* the client_credentials grant only.
InitAuthorize ==
    InitWith({ClientTable(f1, f2) : f1, f2 \in BOOLEAN}
             \cup {[ClientTable(FALSE, FALSE) EXCEPT
                        !["c1"].grantTypes = {"client_credentials"}]})

\* The remaining parameters of a query: scope, state, challenge and method.
\* GoodRest is acceptable for either client; BadRest names an unregistered
\* scope, has no challenge and names an unsupported method.
GoodRest == <<NoScope, "st1", "v1", Absent>>
BadRest == <<ScopeText(<<"admin">>), "st1", Absent, "bogus">>

\* Queries whose redirect_uri is absent, registered for no client, or
\* registered for the other client only.
BadRedirectQueries ==
    {query(a[1], a[2], r[1], r[2], r[3], r[4]) :
        a \in {<<"c1", Absent>>, <<"c1", "u3">>, <<"c1", "u2">>,
               <<"c2", Absent>>, <<"c2", "u3">>},
        r \in {GoodRest, BadRest}}

\* Queries with a registered redirect_uri: acceptable ones (with and without
\* PKCE, scope and state, one with an empty state), a public client without a
\* challenge, an unsupported method, an unregistered scope and a scope outside
\* the client's allow-list.
GoodRedirectQueries ==
    {query(a[1], a[2], a[3], a[4], a[5], a[6]) :
        a \in {<<"c1", "u1", NoScope, Absent, Absent, Absent>>,
               <<"c1", "u1", ScopeText(<<"read">>), "st1", S256("v1"), "S256">>,
               <<"c1", "u1", NoScope, "", Absent, Absent>>,
               <<"c2", "u1", NoScope, "st1", "v1", Absent>>,
               <<"c2", "u2", ScopeText(<<"read">>), Absent, S256("v1"), "S256">>,
               <<"c2", "u1", NoScope, "st1", Absent, Absent>>,
               <<"c1", "u1", NoScope, "st1", "v1", "bogus">>,
               <<"c1", "u1", ScopeText(<<"admin">>), Absent, Absent, Absent>>,
               <<"c2", "u1", ScopeText(<<"write">>), "st1", "v1", Absent>>}}

\* Queries rejected before the client's redirect URIs are looked at.
EarlyErrorQueries ==
    {[query("c1", "u1", NoScope, Absent, Absent, Absent)
        EXCEPT !.response_type = "token"],
     query(Absent, "u1", NoScope, Absent, Absent, Absent),
     query(UnknownClient, "u1", NoScope, "st1", Absent, Absent)}

AuthorizeQueries == BadRedirectQueries \cup GoodRedirectQueries \cup EarlyErrorQueries

NextAuthorize ==
    \/ \E p \in Solo, u \in Users, q \in AuthorizeQueries : AuthorizeGet(p, u, q)
    \/ \E p \in Solo, u \in Users, approved \in BOOLEAN : AuthorizePost(p, u, approved)
    \/ \E p \in Solo, u \in Users : AuthorizePostFails(p, u)
    \/ \E p \in Solo : Return(p)

SpecAuthorize == InitAuthorize /\ [][NextAuthorize]_vars

\* ------------------------------------------------- clients being revoked

AllGrants == {"authorization_code", "client_credentials", "refresh_token"}

\* Both clients are first-party and registered with all three grant types.
ClientTableAllGrants ==
    [c \in ClientIds |-> [ClientTable(TRUE, TRUE)[c] EXCEPT !.grantTypes = AllGrants]]

InitClients == InitWith({ClientTableAllGrants})

credentials(c, s, sc) ==
    [grant_type |-> "client_credentials", client_id |-> c, client_secret |-> s,
     scope |-> sc]

\* Well-formed exchanges and refreshes of what was issued, by either client;
\* client_credentials requests with the client's secret, a wrong one and none;
\* and an exchange and a refresh that lack the code or the refresh token.
ClientBodies ==
    RaceBodies
    \cup {refresh(r, c, OwnSecret(c), NoScope) : r \in IssuedRefresh, c \in ClientIds}
    \cup UNION {{credentials(c, s, NoScope) : s \in {SecretPlain(c), "bad", Absent}} :
                    c \in ClientIds}
    \cup {exchange(Absent, "u1", c, OwnSecret(c), Absent) : c \in ClientIds}
    \cup {refresh(Absent, c, OwnSecret(c), NoScope) : c \in ClientIds}

\* The three grants, one request at a time, while clients are revoked by the
\* application or through DELETE /oauth/clients/:id.
NextClients ==
    \/ \E p \in Solo, u \in Users, q \in RaceQueries : AuthorizeGet(p, u, q)
    \/ \E p \in Solo, body \in ClientBodies : TokenRequest(p, body)
    \/ \E p \in Solo : VerifySecret(p)
    \/ \E p \in Solo : ConsumeSelect(p)
    \/ \E p \in Solo : ConsumeUpdate(p)
    \/ \E p \in Solo : ExchangeCreate(p)
    \/ \E p \in Solo : ClientCredentialsVerify(p)
    \/ \E p \in Solo : ClientCredentialsCreate(p)
    \/ \E p \in Solo : RefreshValidate(p)
    \/ \E p \in Solo : RefreshRevoke(p)
    \/ \E p \in Solo : RefreshCreate(p)
    \/ \E p \in Solo : Return(p)
    \/ \E c \in ClientIds : RevokeClient(c)
    \/ \E p \in Solo, id \in ClientIds \cup {UnknownClient} : DeleteClient(p, id)

SpecClients == InitClients /\ [][NextClients]_vars

\* ------------------------------------------------- scopes through the grants

\* Scope parameters of requests: none, one registered scope, both, and a name
\* that is not registered.
RequestScopes ==
    {NoScope, ScopeText(<<"read">>), ScopeText(<<"read", " ", "write">>),
     ScopeText(<<"admin">>)}

\* Every token comes from POST /oauth/token: codes are issued to first-party
\* clients by GET /oauth/authorize with any of the scope parameters and
\* exchanged, client_credentials requests name any of them, and refreshes
\* narrow, repeat or try to widen the scopes of the token they present.
NextScopes ==
    \/ \E p \in Solo, u \in Users, c \in ClientIds, sc \in RequestScopes :
           AuthorizeGet(p, u, query(c, "u1", sc, Absent,
                                    IF c = "c2" THEN "v1" ELSE Absent, Absent))
    \/ \E p \in Solo, body \in RaceBodies : TokenRequest(p, body)
    \/ \E p \in Solo, c \in ClientIds, sc \in RequestScopes :
           TokenRequest(p, credentials(c, OwnSecret(c), sc))
    \/ \E p \in Solo, r \in IssuedRefresh, c \in ClientIds, sc \in RefreshScopes :
           TokenRequest(p, refresh(r, c, OwnSecret(c), sc))
    \/ \E p \in Solo : VerifySecret(p)
    \/ \E p \in Solo : ConsumeSelect(p)
    \/ \E p \in Solo : ConsumeUpdate(p)
    \/ \E p \in Solo : ExchangeCreate(p)
    \/ \E p \in Solo : ClientCredentialsVerify(p)
    \/ \E p \in Solo : ClientCredentialsCreate(p)
    \/ \E p \in Solo : RefreshValidate(p)
    \/ \E p \in Solo : RefreshRevoke(p)
    \/ \E p \in Solo : RefreshCreate(p)
    \/ \E p \in Solo : Return(p)

\* Both clients are first-party with all three grant types; the confidential
\* c1 may use any registered scope, or the scope read only.
SpecScopes ==
    InitWith({ClientTableAllGrants,
              [ClientTableAllGrants EXCEPT !["c1"].scopes = Some(<<"read">>)]})
        /\ [][NextScopes]_vars

\* ------------------------------------------------- ScopeRegistry.validate

\* The names a caller may pass: the two registered ones and one that is not.
ScopeNames == {"read", "write", "admin"}

\* Lists of at most two names, in either order and with repetition.
ScopeLists ==
    {<<>>} \cup {<<a>> : a \in ScopeNames}
           \cup {<<a, b>> : a \in ScopeNames, b \in ScopeNames}

\* ScopeRegistry.validate is called with every requested list, with no
\* allow-list, an empty one, [read] and [write, read], and with every list of
\* default scopes.
NextValidate ==
    \/ \E p \in Solo, requested \in ScopeLists, defaultScopes \in ScopeLists :
         \E clientAllowed \in {NULL, Some(<<>>), Some(<<"read">>),
                                Some(<<"write", "read">>)} :
            ValidateScopes(p, requested, clientAllowed, defaultScopes)
    \/ \E p \in Solo : Return(p)

SpecValidate == InitRefresh /\ [][NextValidate]_vars

\* ------------------------------------------- revocation and introspection

tokenBody(t, c, s) == [token |-> t, client_id |-> c, client_secret |-> s]

\* How a caller of /revoke or /introspect identifies itself: not at all, as
\* the confidential c1 without secret, with its secret or with a wrong one, as
\* the public c2, or as a client that does not exist.
CallerCredentials ==
    {<<Absent, Absent>>, <<"c1", Absent>>, <<"c1", "s1">>, <<"c1", "bad">>,
     <<"c2", Absent>>, <<UnknownClient, Absent>>, <<Absent, "bad">>}

\* Requests about an issued access or refresh token, about a token that was
\* never issued, with an empty token and without token.
EndpointBodies ==
    {tokenBody(t, a[1], a[2]) :
        t \in IssuedAccess \cup IssuedRefresh \cup {"tX", "", Absent},
        a \in CallerCredentials}

\* Tokens are created, revoked and looked at through POST /oauth/revoke,
\* POST /oauth/introspect and DELETE /oauth/personal-tokens/:id while time
\* passes and clients are revoked.
NextEndpoints ==
    \/ \E params \in TableParams : nextToken + 1 < MaxTokens /\ CreateToken(params)
    \/ \E p \in Solo, body \in EndpointBodies : RevokeRequest(p, body)
    \/ \E p \in Solo, body \in EndpointBodies : IntrospectRequest(p, body)
    \/ \E p \in Solo, user \in {[id |-> "alice"], [id |-> "bob"]} :
           \E id \in 1..nextToken : RevokePersonalToken(p, user, id)
    \/ \E p \in Solo : Return(p)
    \/ \E c \in {"c1"} : RevokeClient(c)
    \/ \E d \in {2} : Tick(d)

SpecEndpoints == InitRefresh /\ [][NextEndpoints]_vars

\* ------------------------------------------------- routes behind the guard

route(guard, required) == [guard |-> guard, required |-> required]

\* Routes with oauth() alone, with oauth() and scopes() requiring nothing, a
\* scope the tokens have, and scopes they lack; and one route that uses
\* scopes() without oauth().
Routes ==
    {route(TRUE, NULL), route(TRUE, Some(<<>>)), route(TRUE, Some(<<"read">>)),
     route(TRUE, Some(<<"write", "read", "admin">>)),
     route(FALSE, Some(<<"read">>))}

\* No header, an empty one, other schemes, the scheme without credentials, and
\* Bearer with an issued access token, an issued refresh token and a token
\* that was never issued.
Headers ==
    {NoHeader}
    \cup {HeaderText(t) :
            t \in {<<>>, <<"Bearer">>, <<"Bearer", " ">>, <<"Basic", " ", "a1">>,
                   <<"bearer", " ", "a1">>, <<"Bearer", " ", "aX">>,
                   <<"Bearer", " ", "r1">>}}
    \cup {HeaderText(<<"Bearer", " ", t>>) : t \in IssuedAccess}

\* Every header on the route that has oauth() alone, and the headers bearing
\* an issued access token on every route.
ApiCalls ==
    {<<route(TRUE, NULL), h>> : h \in Headers}
    \cup {<<r, HeaderText(<<"Bearer", " ", t>>)>> : r \in Routes, t \in IssuedAccess}

\* API requests while tokens are created and revoked and time passes.
NextApi ==
    \/ \E params \in TableParams : nextToken + 1 < MaxTokens /\ CreateToken(params)
    \/ \E id \in 1..nextToken : RevokeToken(id)
    \/ \E p \in Solo, call \in ApiCalls, ownerFound \in BOOLEAN :
            ApiRequest(p, call[1], call[2], ownerFound)
    \/ \E p \in Solo : ScopesCheck(p)
    \/ \E p \in Solo : RouteHandler(p)
    \/ \E p \in Solo : Return(p)
    \/ \E d \in {2} : Tick(d)

SpecApi == InitRefresh /\ [][NextApi]_vars

\* ------------------------------------------------- the instant of expiry

\* Tokens are created and validated while the clock advances one unit at a
\* time, so that it passes through every expires_at.
NextExpiry ==
    \/ \E params \in TableParams : CreateToken(params)
    \/ \E plain \in IssuedAccess : ValidateToken(plain)
    \/ \E id \in 1..nextToken : TouchLastUsed(id)
    \/ \E d \in {1} : Tick(d)

SpecExpiry == InitRefresh /\ [][NextExpiry]_vars

\* ------------------------------------------------- refused refresh grants

\* As InitRefresh, with a refresh-token lifetime of two clock units or of one,
\* so that a refresh token can outlive its access token and can expire within
\* MaxTime; or with an access-token lifetime of two and a refresh-token
\* lifetime of one, so that the refresh token expires first.
InitRefreshErrors ==
    /\ now = 0
    /\ config \in {InitConfig, [InitConfig EXCEPT !.refreshTokenLifetime = 1],
                    [InitConfig EXCEPT !.accessTokenLifetime = 2,
                                       !.refreshTokenLifetime = 1]}
    /\ scopeRegistry = {"read", "write"}
    /\ clients = ClientTable(FALSE, FALSE)
    /\ codes = {}
    /\ tokens = {}
    /\ nextCode = 0
    /\ nextToken = 0
    /\ session = [u \in Users |-> NoRequest]
    /\ pendingTouch = {}
    /\ pc = [p \in Procs |-> "idle"]
    /\ loc = [p \in Procs |-> NoLocals]
    /\ resp = [p \in Procs |-> NoResponse]

\* Refreshes of an issued token by either client, without scope and with a
\* widening one; of an unknown token; without refresh_token; by an unknown
\* client; with a wrong secret and with none.  Meanwhile tokens are issued and
\* revoked, by OAuthToken.revoke and by POST /oauth/revoke presenting an access
\* or a refresh token, the public client is revoked, and time passes.
NextRefreshErrors ==
    \/ \E params \in TokenParams : nextToken + 1 < MaxTokens /\ CreateToken(params)
    \/ \E id \in 1..nextToken : RevokeToken(id)
    \/ \E p \in Solo, t \in IssuedAccess \cup IssuedRefresh :
         RevokeRequest(p, tokenBody(t, Absent, Absent))
    \/ RevokeClient("c2")
    \/ \E p \in Solo :
         \E body \in {refresh(r, c, OwnSecret(c), sc) :
                         r \in IssuedRefresh, c \in ClientIds,
                         sc \in {NoScope, ScopeText(<<"read", " ", "admin">>)}}
                     \cup {refresh("rX", "c2", Absent, NoScope),
                           refresh(Absent, "c1", "s1", NoScope),
                           refresh(RefreshPlain[1], UnknownClient, Absent, NoScope),
                           refresh(RefreshPlain[1], "c1", "bad", NoScope),
                           refresh(RefreshPlain[1], "c1", Absent, NoScope)} :
            TokenRequest(p, body)
    \/ \E p \in Solo : VerifySecret(p)
    \/ \E p \in Solo : RefreshValidate(p)
    \/ \E p \in Solo : RefreshRevoke(p)
    \/ \E p \in Solo : RefreshCreate(p)
    \/ \E p \in Solo : Return(p)
    \/ \E d \in {2} : Tick(d)

SpecRefreshErrors == InitRefreshErrors /\ [][NextRefreshErrors]_vars

\* ------------------------------------------------- pruning the token table

\* The operations of OAuthToken under each of the configured lifetimes.
SpecPrune == InitRefreshErrors /\ [][NextTokens]_vars

\* ------------------------------------------------- what an exchange issues

\* Both clients are first-party; c1 is registered for the authorization_code
\* grant only, c2 with the default grant types.
InitExchange ==
    InitWith({[ClientTable(TRUE, TRUE) EXCEPT !["c1"].grantTypes = {"authorization_code"}]})

\* c1 asks for both scopes or for none, c2 for its one scope; the codes are
\* exchanged by either client.
NextExchange ==
    \/ \E p \in Solo, u \in Users :
         \E q \in {query("c1", "u1", ScopeText(<<"read", " ", "write">>), Absent, Absent, Absent),
                   query("c1", "u1", NoScope, Absent, Absent, Absent),
                   query("c2", "u1", ScopeText(<<"read">>), Absent, "v1", Absent)} :
            AuthorizeGet(p, u, q)
    \/ \E p \in Solo, body \in RaceBodies : TokenRequest(p, body)
    \/ \E p \in Solo : VerifySecret(p)
    \/ \E p \in Solo : ConsumeSelect(p)
    \/ \E p \in Solo : ConsumeUpdate(p)
    \/ \E p \in Solo : ExchangeCreate(p)
    \/ \E p \in Solo : Return(p)

SpecExchange == InitExchange /\ [][NextExchange]_vars

\* ------------------------------------------------------- PKCE at exchange

\* Requests of the first-party clients with a challenge: S256 for c1, plain
\* for c2 (method omitted), S256 for c2.
PkceQueries ==
    {query(a[1], "u1", NoScope, Absent, a[2], a[3]) :
        a \in {<<"c1", S256("v1"), "S256">>,
               <<"c2", "v1", Absent>>,
               <<"c2", S256("v1"), "S256">>}}

\* No verifier, an empty one, the right one, a wrong one, and the text of the
\* S256 challenge itself.
Verifiers == {Absent, "", "v1", "v2", S256("v1")}

PkceBodies ==
    {exchange(k, "u1", c, OwnSecret(c), v) :
        k \in IssuedCodes, c \in ClientIds, v \in Verifiers}

NextPkce ==
    \/ \E p \in Solo, u \in Users, q \in PkceQueries : AuthorizeGet(p, u, q)
    \/ \E p \in Solo, body \in PkceBodies : TokenRequest(p, body)
    \/ \E p \in Solo : VerifySecret(p)
    \/ \E p \in Solo : ConsumeSelect(p)
    \/ \E p \in Solo : ConsumeUpdate(p)
    \/ \E p \in Solo : ExchangeCreate(p)
    \/ \E p \in Solo : Return(p)

SpecPkce == InitRace /\ [][NextPkce]_vars

\* ------------------------------------------------- pruning both tables

\* Codes are issued to the first-party clients and exchanged, tokens are
\* created with and without refresh token and revoked, time passes, and both
\* tables are pruned.
NextPruning ==
    \/ \E p \in Solo, u \in Users, q \in RaceQueries : AuthorizeGet(p, u, q)
    \/ \E p \in Solo, body \in RaceBodies : TokenRequest(p, body)
    \/ \E p \in Solo : VerifySecret(p)
    \/ \E p \in Solo : ConsumeSelect(p)
    \/ \E p \in Solo : ConsumeUpdate(p)
    \/ \E p \in Solo : ExchangeCreate(p)
    \/ \E p \in Solo : Return(p)
    \/ \E params \in TableParams : nextToken + 1 < MaxTokens /\ CreateToken(params)
    \/ \E id \in 1..nextToken : RevokeToken(id)
    \/ AuthCode_prune
    \/ PruneTokens(config.pruneRevokedAfterDays)
    \/ \E d \in {2} : Tick(d)

SpecPruning == InitRace /\ [][NextPruning]_vars

\* ================================================================ properties

\* Process p's consume returns in this step: null (the exchange answers 400
\* invalid_grant) or the row (the handler goes on to mark it used).
ConsumeReturnsNull(p) ==
    /\ pc[p] = "ac_select"
    /\ pc'[p] = "done"
    /\ resp'[p] = InvalidGrantError("grant")
    /\ codes' = codes /\ tokens' = tokens

\* The stored rows of a plaintext code whose used_at is still null.
UnusedRows(plainCode) ==
    {r \in codes : r.code = hashCode(plainCode) /\ r.usedAt = NULL}

\* C1: once consume has succeeded for a code (used_at set), every later consume
\* of that code and every later authorization_code exchange presenting it fails
\* with null / 400 invalid_grant, whatever the parameters and whatever happened
\* in between: a consume that starts when no row of the presented code has a
\* null used_at returns null, used_at is never set back to null, and no row is
\* ever inserted under a code that was handed out before.
C1_UsedCodeNeverConsumedAgain ==
    [][/\ \A p \in Procs :
            (pc[p] = "ac_select" /\ UnusedRows(loc[p].body.code) = {})
                => (pc'[p] = "ac_select" \/ ConsumeReturnsNull(p))
       /\ \A r \in codes' :
            r.usedAt = NULL =>
                \/ r \in codes
                \/ r.code = hashCode(CodePlain[nextCode + 1]) /\ nextCode' = nextCode + 1
       /\ nextCode' >= nextCode]_vars

\* C1 witness: an exchange that would pass every other check of consume has
\* been answered invalid_grant because the row was already used.
C1_Witness ==
    \E p \in Procs :
        /\ pc[p] = "done" /\ loc[p].grant = "authorization_code"
        /\ resp[p] = InvalidGrantError("grant")
        /\ \E r \in AuthCode_select(loc[p].body.code, loc[p].body.client_id) :
              /\ r.usedAt # NULL
              /\ ~(r.expiresAt < now)
              /\ r.redirectUri = loc[p].body.redirect_uri
              /\ AuthCode_pkce(r, loc[p].body.code_verifier)

\* Process p's consume has returned the row of code `id`: the handler is about
\* to create the tokens, or has answered 200 with them.
ExchangeSucceeds(p, id) ==
    /\ loc[p].grant = "authorization_code"
    /\ \/ pc[p] = "ac_create"
       \/ pc[p] = "done" /\ resp[p].status = 200
    /\ loc[p].codeData.id = id

\* C2: of two concurrent authorization_code exchanges of the same valid code,
\* at most one consumes the code successfully and issues tokens.
C2_AtMostOneExchangeSucceeds ==
    \A p, q \in Procs : \A r \in codes :
        (ExchangeSucceeds(p, r.id) /\ ExchangeSucceeds(q, r.id)) => p = q

\* The stored rows of a plaintext refresh token.
RefreshRows(plainRefresh) ==
    {t \in tokens : t.refreshToken = Some(hashToken(plainRefresh))}

\* Process p's refresh grant is past the rotation: about to create the new
\* pair, or answered with it (200), or failed creating it (500).
PastRotation(p) ==
    \/ pc[p] = "rt_create"
    \/ /\ pc[p] = "done" /\ loc[p].grant = "refresh_token"
       /\ resp[p].status \in {200, 500}

\* C3: in a refresh_token grant the old row has revoked_at set before the new
\* pair is created and returned, so every later refresh request presenting the
\* old refresh token to OAuthToken.validateRefreshToken is answered 400
\* invalid_grant and changes no row, also when creating the new pair failed
\* after the revoke; revoked_at, once set, stays set.
C3_OldTokenRevokedBeforeNewPair ==
    [][/\ \A p \in Procs :
            PastRotation(p)' =>
                \A t \in tokens' : t.id = loc'[p].oldToken.id => t.revokedAt # NULL
       /\ \A p \in Procs :
            (/\ pc[p] = "rt_validate"
             /\ \A t \in RefreshRows(loc[p].body.refresh_token) : t.revokedAt # NULL)
                => \/ pc'[p] = "rt_validate"
                   \/ /\ pc'[p] = "done"
                      /\ resp'[p] = InvalidGrantError("grant")
                      /\ tokens' = tokens
       /\ \A t \in tokens : t.revokedAt # NULL =>
            \A u \in tokens' : u.id = t.id => u.revokedAt # NULL]_vars

\* C3 witness: token 1 of client c1 was refreshed into token 2 with narrowed
\* scopes, and a later refresh by c1 presenting the old refresh token has been
\* answered invalid_grant.
C3_Witness ==
    \E p \in Procs : \E old, new \in tokens :
        /\ pc[p] = "done" /\ loc[p].grant = "refresh_token"
        /\ resp[p] = InvalidGrantError("grant")
        /\ old \in RefreshRows(loc[p].body.refresh_token)
        /\ old.clientId = loc[p].body.client_id
        /\ old.revokedAt # NULL
        /\ new.id > old.id /\ new.clientId = "c1" /\ new.scopes = <<"read">>
        /\ new.revokedAt = NULL

\* Process p's refresh grant has answered 200 with a new pair minted from the
\* token row `id`.
RefreshMinted(p, id) ==
    /\ pc[p] = "done" /\ loc[p].grant = "refresh_token"
    /\ resp[p].status = 200
    /\ loc[p].oldToken.id = id

\* C4: a refresh token mints a new pair at most once: of several concurrent
\* refresh_token grants presenting the same refresh token, at most one returns
\* a new pair.
C4_RefreshMintsAtMostOnce ==
    \A p, q \in Procs : \A t \in tokens :
        (RefreshMinted(p, t.id) /\ RefreshMinted(q, t.id)) => p = q

\* C5: a token row whose revoked_at is non-null stays revoked: no operation
\* clears revoked_at, and in every state reached OAuthToken.validate and
\* OAuthToken.validateRefreshToken return null for the access and refresh
\* plaintexts of every revoked row.
C5_RevokedStaysRevoked ==
    [][/\ \A t \in tokens : t.revokedAt # NULL =>
            \A u \in tokens' : u.id = t.id => u.revokedAt # NULL
       /\ \A t \in tokens' : t.revokedAt # NULL =>
            /\ OAuthToken_validate(AccessPlain[t.id])' = NULL
            /\ OAuthToken_validateRefreshToken(RefreshPlain[t.id])' = NULL]_vars

\* C5 witness: a revoked row that has been used, whose access and refresh
\* tokens have not expired, is rejected by validate and validateRefreshToken.
C5_Witness ==
    \E t \in tokens :
        /\ t.revokedAt # NULL /\ t.lastUsedAt # NULL
        /\ ~(t.expiresAt < now)
        /\ t.refreshExpiresAt # NULL /\ ~(ValueOf(t.refreshExpiresAt) < now)
        /\ OAuthToken_validate(AccessPlain[t.id]) = NULL
        /\ OAuthToken_validateRefreshToken(RefreshPlain[t.id]) = NULL

\* The scope parameter names a scope that the row `old` does not have.
Widens(scope, old) ==
    \E i \in DOMAIN scope.text :
        scope.text[i] # " " /\ scope.text[i] \notin Range(old.scopes)

\* The row `old` is a refresh token that client `clientId` may still use.
Refreshable(old, clientId) ==
    /\ old.clientId = clientId
    /\ old.revokedAt = NULL
    /\ ~(ValueOf(old.refreshExpiresAt) < now)

\* C6: the scopes of the token issued by a successful refresh_token grant are
\* a subset of the scopes of the refreshed token, and a refresh request whose
\* scope parameter names a scope outside the old token's scopes goes no
\* further than the token checks: it is answered 400 invalid_request (400
\* invalid_grant if the refresh token itself is not acceptable) and no row is
\* inserted or changed.
C6_RefreshOnlyNarrowsScopes ==
    [][\A p \in Procs :
        /\ (pc[p] = "rt_create" /\ pc'[p] = "done" /\ resp'[p].status = 200) =>
              \A new \in tokens' \ tokens :
                  /\ resp'[p].scope = JoinScopes(new.scopes)
                  /\ \A old \in RefreshRows(loc[p].body.refresh_token) :
                        Range(new.scopes) \subseteq Range(old.scopes)
        /\ (pc[p] = "rt_validate" /\ pc'[p] # "rt_validate") =>
              \A old \in RefreshRows(loc[p].body.refresh_token) :
                  Widens(loc[p].body.scope, old) =>
                      /\ pc'[p] = "done"
                      /\ tokens' = tokens /\ nextToken' = nextToken
                      /\ resp'[p] =
                            IF Refreshable(old, loc[p].body.client_id)
                            THEN InvalidRequestError("widen_scopes")
                            ELSE InvalidGrantError("grant")]_vars

\* C6 witness: a refresh of a live one-scope token of c2 that asked for read
\* and admin has been answered invalid_request.
C6_Witness ==
    \E p \in Procs :
        /\ pc[p] = "done" /\ loc[p].grant = "refresh_token"
        /\ resp[p] = InvalidRequestError("widen_scopes")
        /\ loc[p].body.scope = ScopeText(<<"read", " ", "admin">>)
        /\ \E old \in RefreshRows(loc[p].body.refresh_token) :
              old.scopes = <<"read">> /\ Refreshable(old, "c2")

\* Process p has just handled the GET /authorize query now in its locals.
HandlesGet(p) ==
    pc[p] = "idle" /\ pc'[p] = "done" /\ loc'[p].grant = "GET /authorize"

\* The query names an existing, non-revoked client that supports the
\* authorization_code grant, but its redirect_uri is absent or is not one of
\* the client's registered URIs.
UnvalidatedRedirect(q) ==
    /\ q.response_type = "code"
    /\ q.client_id \in DOMAIN clients
    /\ ~clients[q.client_id].revoked
    /\ "authorization_code" \in clients[q.client_id].grantTypes
    /\ \/ q.redirect_uri = Absent
       \/ q.redirect_uri \notin clients[q.client_id].redirectUris

\* C7: a GET /authorize with response_type=code that names an existing,
\* non-revoked client supporting authorization_code, and whose redirect_uri is
\* absent or not equal to one of the client's registered URIs, is answered
\* with a JSON 400 invalid_request, never a redirect, and neither the session
\* nor the code table is written.
C7_UnregisteredRedirectGetsJson400 ==
    [][\A p \in Procs :
        (HandlesGet(p) /\ UnvalidatedRedirect(loc'[p].query)) =>
            /\ resp'[p].kind = "json"
            /\ resp'[p].status = 400
            /\ resp'[p].error = "invalid_request"
            /\ session' = session
            /\ codes' = codes]_vars

\* C7 witness: with a request pending in the session, a query of the public
\* client c2 with an unregistered redirect_uri, no challenge, an unsupported
\* method and an unregistered scope has been answered with the JSON 400.
C7_Witness ==
    \E p \in Procs :
        /\ pc[p] = "done" /\ loc[p].grant = "GET /authorize"
        /\ loc[p].query = query("c2", "u3", BadRest[1], BadRest[2], BadRest[3], BadRest[4])
        /\ resp[p] = InvalidRequestError("redirect_uri")
        /\ session[loc[p].user].pending

\* The verifier is the one the stored challenge of `row` was derived from.
VerifierMatches(codeVerifier, row) ==
    /\ codeVerifier # Absent
    /\ IF row.codeChallengeMethod = Some("S256")
       THEN <<S256(codeVerifier)>> = row.codeChallenge
       ELSE <<codeVerifier>> = row.codeChallenge

\* C8: every code row of a public client, whether issued by GET or by POST
\* /authorize, carries a code challenge; an exchange of such a code whose
\* code_verifier is missing or does not match the stored challenge has consume
\* return null and is answered 400 invalid_grant; and a GET /authorize for a
\* public client without code_challenge writes neither a code nor the session.
C8_PublicClientsNeedPkce ==
    [][/\ \A r \in codes' :
            ~clients[r.clientId].confidential =>
                r.codeChallenge # NULL /\ r.codeChallenge # <<"">>
       /\ \A p \in Procs :
            (pc[p] = "ac_select" /\ pc'[p] # "ac_select") =>
                \A r \in AuthCode_select(loc[p].body.code, loc[p].body.client_id) :
                    (/\ ~clients[r.clientId].confidential
                     /\ ~VerifierMatches(loc[p].body.code_verifier, r))
                        => ConsumeReturnsNull(p)
       /\ \A p \in Procs :
            (/\ HandlesGet(p)
             /\ loc'[p].query.client_id \in DOMAIN clients
             /\ ~clients[loc'[p].query.client_id].confidential
             /\ loc'[p].query.code_challenge = Absent)
                => codes' = codes /\ session' = session]_vars

\* C8 witness: a code issued by POST /authorize to the public client c2 is
\* unused and unexpired, and its exchange by c2 with the right redirect_uri
\* and the wrong verifier has been answered invalid_grant.
C8_Witness ==
    \E p \in Procs :
        /\ pc[p] = "done" /\ loc[p].grant = "authorization_code"
        /\ resp[p] = InvalidGrantError("grant")
        /\ loc[p].body.client_id = "c2" /\ ~clients["c2"].firstParty
        /\ loc[p].body.code_verifier = "v2"
        /\ \E r \in AuthCode_select(loc[p].body.code, "c2") :
              /\ r.usedAt = NULL /\ ~(r.expiresAt < now)
              /\ r.redirectUri = loc[p].body.redirect_uri

\* Process p has just handled a POST /authorize.
HandlesPost(p) ==
    pc[p] = "idle" /\ pc'[p] = "done" /\ loc'[p].grant = "POST /authorize"

\* The response carries the state the pending request was made with: none when
\* the request had no state, the same value when it had a non-empty one.
EchoesState(response, authRequest) ==
    /\ authRequest.state = NULL => response.state = Absent
    /\ (authRequest.state # NULL /\ authRequest.state # <<"">>)
          => <<response.state>> = authRequest.state

PastConsume(p) ==
    \/ pc[p] \in {"ac_update", "ac_create"}
    \/ pc[p] = "done" /\ loc[p].grant = "authorization_code" /\ resp[p].status = 200

\* C10: a code is consumed only by the client it was issued to and only with
\* the redirect_uri it was bound to: a consume for a code whose row belongs to
\* another client or carries another redirect_uri returns null, the exchange is
\* answered 400 invalid_grant and no row is written; and whenever consume has
\* returned a row, the row is that of the presented code, of the requesting
\* client and with the presented redirect_uri, and the token issued is that
\* client's.
C10_CodeBoundToClientAndRedirect ==
    [][\A p \in Procs :
        /\ (pc[p] = "ac_select" /\ pc'[p] # "ac_select") =>
              \A r \in codes :
                  (/\ r.code = hashCode(loc[p].body.code)
                   /\ \/ r.clientId # loc[p].body.client_id
                      \/ r.redirectUri # loc[p].body.redirect_uri)
                      => ConsumeReturnsNull(p)
        /\ PastConsume(p)' =>
              /\ loc'[p].codeData.code = hashCode(loc'[p].body.code)
              /\ loc'[p].codeData.clientId = loc'[p].body.client_id
              /\ loc'[p].codeData.redirectUri = loc'[p].body.redirect_uri
        /\ (pc[p] = "ac_create" /\ pc'[p] = "done") =>
              \A new \in tokens' \ tokens :
                  new.clientId = loc[p].codeData.clientId]_vars

\* C10 witness: a code of the public client c2, unused and unexpired, has been
\* presented by the authenticated client c1 with the bound redirect_uri and
\* the right verifier, and the exchange has been answered invalid_grant.
C10_Witness ==
    \E p \in Procs : \E r \in codes :
        /\ pc[p] = "done" /\ loc[p].grant = "authorization_code"
        /\ resp[p] = InvalidGrantError("grant")
        /\ r.code = hashCode(loc[p].body.code)
        /\ r.clientId = "c2" /\ loc[p].body.client_id = "c1"
        /\ r.usedAt = NULL /\ ~(r.expiresAt < now)
        /\ r.redirectUri = loc[p].body.redirect_uri
        /\ VerifierMatches(loc[p].body.code_verifier, r)

\* ---------------------------------------------------------------- C11

\* What the handlers other than tokenHandler record as the request they handle.
PathsOfOtherHandlers ==
    {"none", "GET /authorize", "POST /authorize", "DELETE /clients", "POST /revoke",
     "POST /introspect", "oauth()", "scopes()"}

\* Process p starts handling a POST /oauth/token in this step.
StartsTokenRequest(p) ==
    pc[p] = "idle" /\ pc'[p] # "idle" /\ loc'[p].grant \notin PathsOfOtherHandlers

NamesRevokedClient(body) ==
    body.client_id \in DOMAIN clients /\ clients[body.client_id].revoked

\* The parameters the grant's handler requires before it looks up the client.
RequiredPresent(body) ==
    CASE body.grant_type = "authorization_code" ->
            Truthy(body.code) /\ Truthy(body.redirect_uri) /\ Truthy(body.client_id)
      [] body.grant_type = "client_credentials" ->
            Truthy(body.client_id) /\ Truthy(body.client_secret)
      [] body.grant_type = "refresh_token" ->
            Truthy(body.refresh_token) /\ Truthy(body.client_id)
      [] OTHER -> FALSE

RejectedAsInvalidClient(p) ==
    /\ pc'[p] = "done"
    /\ resp'[p].status = 401 /\ resp'[p].error = "invalid_client"
    /\ tokens' = tokens /\ nextToken' = nextToken /\ codes' = codes

\* C11 (as stated): every POST /oauth/token request that names a revoked
\* client, of any of the three grant types, is answered 401 invalid_client and
\* issues no token.  Fails for requests that lack a required parameter: they
\* are answered 400 invalid_request before the client is looked up.
C11_EveryRequestOfRevokedClientGets401 ==
    [][\A p \in Solo :
        (StartsTokenRequest(p) /\ loc'[p].body.grant_type \in AllGrants
         /\ NamesRevokedClient(loc'[p].body))
        => RejectedAsInvalidClient(p)]_vars

\* C11 (amended): every POST /oauth/token request that starts after the client
\* it names was revoked and that carries the parameters its grant requires is
\* answered 401 invalid_client in the step that looks up the client, and no
\* token row is written; this includes the exchange of a code and the refresh
\* of a token issued before the revocation.
C11_RevokedClientRejected ==
    [][\A p \in Solo :
        (StartsTokenRequest(p) /\ RequiredPresent(loc'[p].body)
         /\ NamesRevokedClient(loc'[p].body))
        => RejectedAsInvalidClient(p)]_vars

\* A refresh token issued to a client before its revocation, still neither
\* revoked nor expired itself, has just been refused with 401 invalid_client.
C11_Witness ==
    \E p \in Solo :
        /\ pc[p] = "done" /\ loc[p].grant = "refresh_token"
        /\ clients[loc[p].body.client_id].revoked
        /\ refreshAccepted(OAuthToken_validateRefreshToken(loc[p].body.refresh_token),
                           loc[p].body.client_id)
        /\ resp[p].status = 401 /\ resp[p].error = "invalid_client"

\* ---------------------------------------------------------------- C12

StartsRevoke(p) ==
    pc[p] = "idle" /\ pc'[p] = "done" /\ loc'[p].grant = "POST /revoke"

\* The caller does not fail client authentication: it names no client, or an
\* existing client that is not revoked and, when that client is confidential
\* and a secret is sent, sends the client's secret.
CallerAccepted(body) ==
    \/ ~Truthy(body.client_id)
    \/ /\ body.client_id \in DOMAIN clients
       /\ ~clients[body.client_id].revoked
       /\ \/ ~clients[body.client_id].confidential
          \/ ~Truthy(body.client_secret)
          \/ body.client_secret = SecretPlain(body.client_id)

\* C12 (as stated): every POST /oauth/revoke whose token parameter is present
\* is answered 200, whatever client_id and client_secret are.  Fails when
\* client_id names an unknown or revoked client or a sent secret is wrong (401)
\* and when the token parameter is present but empty (400).
C12_RevokeAlways200 ==
    [][\A p \in Solo :
        (StartsRevoke(p) /\ loc'[p].body.token # Absent) => resp'[p].status = 200]_vars

\* C12 (amended): a POST /oauth/revoke with a non-empty token is answered 200
\* with an empty object whether or not the token exists, provided the caller
\* does not fail client authentication; when it does, the answer is 401
\* invalid_client and no token is revoked.
C12_RevokeAnswers200UnlessClientFails ==
    [][\A p \in Solo :
        (StartsRevoke(p) /\ Truthy(loc'[p].body.token)) =>
            IF CallerAccepted(loc'[p].body)
            THEN resp'[p] = OkJson(<<>>)
            ELSE /\ resp'[p].status = 401 /\ resp'[p].error = "invalid_client"
                 /\ tokens' = tokens]_vars

\* A revocation request for a token that was never issued, made in the name of
\* an existing client, has been answered 200.
C12_Witness ==
    \E p \in Solo :
        /\ pc[p] = "done" /\ loc[p].grant = "POST /revoke"
        /\ loc[p].body.token = "tX" /\ loc[p].body.client_id = "c1"
        /\ tokens # {}
        /\ resp[p].status = 200

\* ---------------------------------------------------------------- C13

\* oauth() runs for process p in this step.
GuardRuns(p) ==
    pc[p] = "idle" /\ pc'[p] # "idle" /\ loc'[p].grant = "oauth()"
    /\ loc'[p].route.guard

\* The header carries the plaintext of a stored access token that is neither
\* revoked nor expired and whose user, if it has one, is found.
BearerPasses(header, ownerFound) ==
    /\ header.sent /\ Len(header.text) = 3
    /\ header.text[1] = "Bearer" /\ header.text[2] = " "
    /\ \E t \in tokens :
        /\ t.token = hashToken(header.text[3])
        /\ t.revokedAt = NULL /\ ~(t.expiresAt < now)
        /\ t.userId # NULL => ownerFound

\* C13: oauth() calls next() only for an Authorization header that starts with
\* "Bearer " and carries an access token that validate accepts and whose user,
\* if any, is found, and then the token record is on the context; in every
\* other case it returns 401 unauthenticated (no Bearer header) or 401
\* invalid_token, and the request ends without reaching the handler.
C13_GuardAdmitsOnlyValidBearer ==
    [][\A p \in Solo : GuardRuns(p) =>
        IF BearerPasses(loc'[p].header, loc'[p].ownerFound)
        THEN /\ pc'[p] \in {"scopes", "handler"}
             /\ loc'[p].ctx.oauth_token # NULL
             /\ ValueOf(loc'[p].ctx.oauth_token).token = hashToken(loc'[p].header.text[3])
        ELSE /\ pc'[p] = "done"
             /\ resp'[p].status = 401
             /\ resp'[p].error =
                    IF startsWithBearer(loc'[p].header) THEN "invalid_token"
                    ELSE "unauthenticated"]_vars

\* A request bearing a valid access token whose user no longer exists has
\* been turned away with 401 invalid_token.
C13_Witness ==
    \E p \in Solo :
        /\ pc[p] = "done" /\ loc[p].grant = "oauth()" /\ loc[p].route.guard
        /\ BearerPasses(loc[p].header, TRUE) /\ ~loc[p].ownerFound
        /\ resp[p].status = 401 /\ resp[p].error = "invalid_token"

\* ---------------------------------------------------------------- C14

\* The names in a list joined with ", ".
NamesOf(joined) == {joined[i] : i \in {j \in DOMAIN joined : j % 2 = 1}}

\* The required scopes the attached token lacks.
Lacking(p) ==
    Range(ValueOf(loc[p].route.required)) \ Range(ValueOf(loc[p].ctx.oauth_token).scopes)

\* C14: scopes(...required) calls next() exactly when a token is attached and
\* has every required scope; with a token that lacks some it returns 403
\* insufficient_scope naming exactly the lacking ones, without a token 401,
\* and in both cases the request ends without reaching the handler.
C14_ScopesProceedsIffAllGranted ==
    [][\A p \in Solo : (pc[p] = "scopes" /\ pc'[p] # "scopes") =>
        IF loc[p].ctx.oauth_token = NULL THEN
            pc'[p] = "done" /\ resp'[p].status = 401
        ELSE IF Lacking(p) = {} THEN
            pc'[p] = "handler"
        ELSE /\ pc'[p] = "done"
             /\ resp'[p].status = 403 /\ resp'[p].error = "insufficient_scope"
             /\ NamesOf(resp'[p].why) = Lacking(p)]_vars

\* A token that has one of three required scopes has been refused with 403
\* naming the other two.
C14_Witness ==
    \E p \in Solo :
        /\ pc[p] = "done" /\ loc[p].grant = "oauth()"
        /\ loc[p].ctx.oauth_token # NULL
        /\ resp[p].status = 403
        /\ NamesOf(resp[p].why) = {"write", "admin"}
        /\ "read" \in Range(ValueOf(loc[p].ctx.oauth_token).scopes)

\* ---------------------------------------------------------------- C15

\* C15: once DELETE /oauth/clients/:id has answered 200, the client is revoked
\* and validate and validateRefreshToken reject every token issued to it.
C15_DeleteClientRevokesItsTokens ==
    \A p \in Solo :
        (pc[p] = "done" /\ loc[p].grant = "DELETE /clients" /\ resp[p].status = 200)
        => /\ clients[loc[p].id].revoked
           /\ \A t \in tokens : t.clientId = loc[p].id =>
                /\ OAuthToken_validate(AccessPlain[t.id]) = NULL
                /\ OAuthToken_validateRefreshToken(RefreshPlain[t.id]) = NULL

\* ---------------------------------------------------------------- C16

StartsIntrospect(p) ==
    pc[p] = "idle" /\ pc'[p] = "done" /\ loc'[p].grant = "POST /introspect"

\* The rows whose access token has that plaintext and which are neither
\* revoked nor expired.
ActiveRows(plain) ==
    {t \in tokens : t.token = hashToken(plain) /\ t.revokedAt = NULL
                     /\ ~(t.expiresAt < now)}

\* C16: a POST /oauth/introspect with a token, from a caller that does not
\* fail client authentication, answers active=true exactly when the token is
\* the plaintext of an access token that is neither revoked nor expired, and
\* then describes that row, with sub present exactly when the row has a user;
\* otherwise it answers active=false and nothing else.
C16_IntrospectActiveIffValid ==
    [][\A p \in Solo :
        (StartsIntrospect(p) /\ Truthy(loc'[p].body.token)
         /\ CallerAccepted(loc'[p].body)) =>
            LET rows == ActiveRows(loc'[p].body.token)
                fields == resp'[p].fields
            IN /\ resp'[p].status = 200
               /\ IF rows = {} THEN fields = [active |-> FALSE]
                  ELSE \E t \in rows :
                        /\ fields.active /\ fields.client_id = t.clientId
                        /\ fields.scope = JoinScopes(t.scopes)
                        /\ ("sub" \in DOMAIN fields) <=> (t.userId # NULL)
                        /\ t.userId # NULL => fields.sub = ValueOf(t.userId)]_vars

\* An access token without user has been reported active, without sub.
C16_Witness ==
    \E p \in Solo :
        /\ pc[p] = "done" /\ loc[p].grant = "POST /introspect"
        /\ \E t \in ActiveRows(loc[p].body.token) : t.userId = NULL
        /\ resp[p].status = 200 /\ resp[p].fields.active
        /\ "sub" \notin DOMAIN resp[p].fields

\* ---------------------------------------------------------------- C17

\* The SHA-256 hex digest of a plaintext.
Sha256(plain) == <<"sha256", plain>>

C18_ValidateNullAtExpiry ==
    \A t \in tokens :
        t.expiresAt <= now => OAuthToken_validate(AccessPlain[t.id]) = NULL

\* ---------------------------------------------------------------- C19

StartsClientCredentials(p) ==
    StartsTokenRequest(p) /\ loc'[p].body.grant_type = "client_credentials"

NamesPublicClient(body) ==
    body.client_id \in DOMAIN clients /\ ~clients[body.client_id].confidential

\* C19 (as stated): every client_credentials request whose client_id names a
\* public client is answered 401 invalid_client and issues no token, whatever
\* its other parameters.  Fails for a request without client_secret: it is
\* answered 400 invalid_request before the client is looked up.
C19_EveryRequestOfPublicClientGets401 ==
    [][\A p \in Solo :
        (StartsClientCredentials(p) /\ NamesPublicClient(loc'[p].body))
        => RejectedAsInvalidClient(p)]_vars

\* C19 (amended): every client_credentials request that carries a client_id
\* and a client_secret and whose client_id names a public client is answered
\* 401 invalid_client by the checks on the client row, before the secret is
\* verified, and no token row is written, whatever the secret and the scope.
C19_PublicClientRejected ==
    [][\A p \in Solo :
        (StartsClientCredentials(p) /\ NamesPublicClient(loc'[p].body)
         /\ Truthy(loc'[p].body.client_secret))
        => RejectedAsInvalidClient(p)]_vars

\* A public client that is not revoked and is permitted the client_credentials
\* grant has just been refused with 401 invalid_client.
C19_Witness ==
    \E p \in Solo :
        /\ pc[p] = "done" /\ loc[p].grant = "client_credentials"
        /\ NamesPublicClient(loc[p].body)
        /\ ~clients[loc[p].body.client_id].revoked
        /\ "client_credentials" \in clients[loc[p].body.client_id].grantTypes
        /\ Truthy(loc[p].body.client_secret)
        /\ resp[p].status = 401 /\ resp[p].error = "invalid_client"

\* ---------------------------------------------------------------- C20

\* The scope parameter names no scope: omitted, empty, or spaces only.
NamesNoScope(scope) == SplitScope(scope) = <<>>

\* C20 (refresh_token grant): a refresh whose scope parameter is the empty
\* string or consists only of spaces is treated like one without a scope
\* parameter: when it succeeds, the new token pair carries the scopes of the
\* old token.
C20_BlankScopeCarriesOldScopes ==
    [][\A p \in Solo :
        (pc[p] = "rt_create" /\ pc'[p] = "done" /\ resp'[p].status = 200
         /\ NamesNoScope(loc[p].body.scope))
        => \E row \in tokens' \ tokens : row.scopes = loc[p].oldToken.scopes]_vars

\* ---------------------------------------------------------------- C21

\* C21: revoke(id) of a token that is already revoked leaves its row as the
\* first revoke(id) left it, also when the clock advanced in between.
C21_SecondRevokeChangesNothing ==
    [][\A id \in 1..nextToken :
        (RevokeToken(id) /\ \E t \in tokens : t.id = id /\ t.revokedAt # NULL)
        => tokens' = tokens]_vars

\* ---------------------------------------------------------------- C22

\* Process p's AuthCode.consume returns null in this step.
ConsumeFails(p) == pc[p] = "ac_select" /\ pc'[p] = "done"

\* C22: every AuthCode.consume that returns null (no row for that client, row
\* already used, expired, redirect_uri mismatch, PKCE failure) leaves the
\* auth-code table as it was, so used_at of every row keeps its value; the
\* exchange is answered 400 invalid_grant and no token is written.
C22_FailedConsumeLeavesCodesUnchanged ==
    [][\A p \in Procs :
        ConsumeFails(p)
        => /\ codes' = codes /\ nextCode' = nextCode
           /\ tokens' = tokens /\ nextToken' = nextToken
           /\ resp'[p] = InvalidGrantError("grant")]_vars

\* A consume has just returned null for a wrong redirect URI or a failed PKCE
\* check, and the row is still unused and unexpired: a consume with the
\* redirect URI and the verifier of the authorization request would succeed.
C22_Witness ==
    \E p \in Procs :
        /\ pc[p] = "done" /\ loc[p].grant = "authorization_code"
        /\ resp[p] = InvalidGrantError("grant")
        /\ \E r \in AuthCode_select(loc[p].body.code, loc[p].body.client_id) :
              /\ r.usedAt = NULL
              /\ ~AuthCode_accepts(r, loc[p].body.redirect_uri, loc[p].body.code_verifier)
              /\ \E v \in {Absent, "v1"} : AuthCode_accepts(r, r.redirectUri, v)

\* ---------------------------------------------------------------- C23

\* The verifier is present and non-empty and matches the stored challenge
\* under the stored method.
PkceSatisfied(r, v) ==
    /\ v # Absent /\ v # ""
    /\ r.codeChallengeMethod = Some("S256") => S256(v) = r.codeChallenge[1]
    /\ r.codeChallengeMethod = Some("plain") => v = r.codeChallenge[1]

\* C23: for a code stored with a code challenge, consume returns null whenever
\* the verifier is missing or empty, or does not match the challenge under the
\* stored method (S256: BASE64URL(SHA-256(verifier)); plain: the verifier
\* itself); and for an unused, unexpired row presented with its redirect URI,
\* consume succeeds exactly when the verifier matches.
C23_PkceVerifiedAtConsume ==
    [][\A p \in Procs :
        (pc[p] = "ac_select" /\ pc'[p] # "ac_select") =>
            \A r \in AuthCode_select(loc[p].body.code, loc[p].body.client_id) :
                (r.codeChallenge # NULL /\ r.codeChallengeMethod \in {<<"S256">>, <<"plain">>})
                => /\ ~PkceSatisfied(r, loc[p].body.code_verifier)
                        => ConsumeReturnsNull(p)
                   /\ (/\ PkceSatisfied(r, loc[p].body.code_verifier)
                       /\ r.usedAt = NULL /\ ~(r.expiresAt < now)
                       /\ r.redirectUri = loc[p].body.redirect_uri)
                        => pc'[p] = "ac_update" /\ loc'[p].codeData = r]_vars

\* An unused S256 code has been refused for a verifier equal to the text of
\* its challenge, after a code with a plain challenge was consumed.
C23_Witness ==
    \E p \in Procs :
        /\ pc[p] = "done" /\ loc[p].grant = "authorization_code"
        /\ resp[p] = InvalidGrantError("grant")
        /\ \E r \in AuthCode_select(loc[p].body.code, loc[p].body.client_id) :
              /\ r.usedAt = NULL /\ r.codeChallengeMethod = Some("S256")
              /\ loc[p].body.code_verifier = r.codeChallenge[1]
        /\ \E r \in codes : r.usedAt # NULL /\ r.codeChallengeMethod = Some("plain")

\* ---------------------------------------------------------------- C24

\* The statements of handleRefreshToken that precede the rotation.
BeforeRotation == {"idle", "verify", "rt_validate"}

\* Process p answers a refresh_token grant with an OAuth error in this step.
RefreshRefused(p) ==
    /\ pc[p] # "done" /\ pc'[p] = "done" /\ loc'[p].grant = "refresh_token"
    /\ resp'[p].status \in {400, 401}

\* C24: a refresh_token grant is answered with an error only before the
\* rotation, and no statement before the rotation writes the token table, so a
\* refused refresh leaves every token row as it was; a refresh token presented
\* under another client's id is answered 400 invalid_grant and stays unrevoked.
C24_RefusedRefreshLeavesTokensUnchanged ==
    [][\A p \in Procs :
        /\ RefreshRefused(p) => pc[p] \in BeforeRotation
        /\ (/\ pc[p] \in BeforeRotation /\ pc'[p] # pc[p]
            /\ loc'[p].grant = "refresh_token")
           => tokens' = tokens /\ nextToken' = nextToken
        /\ (/\ pc[p] = "rt_validate" /\ pc'[p] # "rt_validate"
            /\ \E t \in RefreshRows(loc[p].body.refresh_token) :
                  t.clientId # loc[p].body.client_id)
           => /\ resp'[p] = InvalidGrantError("grant")
              /\ tokens' = tokens]_vars

\* A live refresh token of one client, presented by the other client, has
\* been refused with invalid_grant and is still live.
C24_Witness ==
    \E p \in Procs :
        /\ pc[p] = "done" /\ loc[p].grant = "refresh_token"
        /\ resp[p] = InvalidGrantError("grant")
        /\ \E t \in RefreshRows(loc[p].body.refresh_token) :
              /\ t.clientId # loc[p].body.client_id
              /\ t.revokedAt = NULL
              /\ OAuthToken_validateRefreshToken(loc[p].body.refresh_token) = Some(t)

\* ---------------------------------------------------------------- C25

\* The code row an exchange request presents.
PresentedCode(body) ==
    {r \in codes : r.code = hashCode(body.code) /\ r.clientId = body.client_id}

\* C25: a successful authorization_code exchange inserts exactly one token
\* row; it has the user id, the client id and the scopes of the consumed code,
\* and it has a refresh token, which the response carries, exactly when the
\* client's grant types include refresh_token.
C25_ExchangeIssuesWhatTheCodeGrants ==
    [][\A p \in Procs :
        (pc[p] = "ac_create" /\ pc'[p] = "done" /\ resp'[p].status = 200) =>
            /\ Cardinality(tokens' \ tokens) = 1
            /\ \A row \in tokens' \ tokens : \A r \in PresentedCode(loc[p].body) :
                  /\ row.userId = Some(r.userId)
                  /\ row.clientId = r.clientId
                  /\ row.scopes = r.scopes
                  /\ (row.refreshToken # NULL)
                        <=> ("refresh_token" \in clients[r.clientId].grantTypes)
                  /\ (resp'[p].refresh_token # Absent) <=> (row.refreshToken # NULL)
                  /\ resp'[p].access_token = AccessPlain[row.id]
            /\ PresentedCode(loc[p].body) # {}]_vars

\* Both kinds of exchange have happened: a token with two scopes and no
\* refresh token for c1, and a token with a refresh token for c2.
C25_Witness ==
    /\ \E t \in tokens :
          t.clientId = "c1" /\ t.refreshToken = NULL /\ t.scopes = <<"read", "write">>
             /\ t.userId = Some("alice")
    /\ \E t \in tokens : t.clientId = "c2" /\ t.refreshToken # NULL
    /\ \E p \in Procs : pc[p] = "done" /\ resp[p].status = 200

\* ---------------------------------------------------------------- C26

\* C26: every token row has an access hash; a row with a refresh hash has a
\* user id and a refresh expiry; and a row without user id, as the
\* client_credentials grant creates it, has neither refresh hash nor refresh
\* expiry, although it was created with includeRefreshToken = true.
C26_RefreshTokenNeedsUser ==
    \A t \in tokens :
        /\ t.token = Sha256(AccessPlain[t.id])
        /\ t.refreshToken # NULL => (t.userId # NULL /\ t.refreshExpiresAt # NULL)
        /\ t.userId = NULL => (t.refreshToken = NULL /\ t.refreshExpiresAt = NULL)

\* A token without user and a token pair of a user are stored, one of them
\* revoked.
C26_Witness ==
    /\ \E t \in tokens : t.userId = NULL /\ t.refreshToken = NULL
    /\ \E t \in tokens : t.userId # NULL /\ t.refreshToken # NULL
    /\ \E t \in tokens : t.revokedAt # NULL
    /\ \A params \in TableParams : params.includeRefreshToken

\* ---------------------------------------------------------------- C29

\* C29: an authorization request stored in the session yields at most one
\* code.  The request of a first-party client has yielded its code in the GET
\* that stored it, so a POST /authorize with approved = true that follows
\* without a new GET is answered 400 invalid_request and issues no second code.
C29_OneCodePerAuthorizationRequest ==
    [][\A p \in Solo :
        (/\ HandlesPost(p) /\ loc'[p].approved
         /\ session[loc'[p].user].pending
         /\ clients[session[loc'[p].user].clientId].firstParty)
        => /\ resp'[p].status = 400 /\ resp'[p].error = "invalid_request"
           /\ codes' = codes]_vars

\* ---------------------------------------------------------------- C27

\* C27: every POST /authorize that finds a pending authorization request
\* leaves the session without it, whether the user approved or denied and
\* whether the code was created or its creation failed; a POST /authorize that
\* finds none, as one that follows without a new GET does, is answered 400
\* invalid_request and changes neither the session nor the code table.
C27_PostClearsPendingRequest ==
    [][\A p \in Solo :
        HandlesPost(p) =>
            /\ session[loc'[p].user].pending
                => /\ session'[loc'[p].user] = NoRequest
                   /\ resp'[p].status \in {302, 500}
                   /\ resp'[p].status = 500 => codes' = codes
            /\ ~session[loc'[p].user].pending
                => /\ resp'[p].status = 400 /\ resp'[p].error = "invalid_request"
                   /\ session' = session /\ codes' = codes]_vars

\* A code was issued to a client that is not first-party, so a POST approved
\* its request, and a POST has now been answered 400 invalid_request.
C27_Witness ==
    \E p \in Solo :
        /\ pc[p] = "done" /\ loc[p].grant = "POST /authorize"
        /\ resp[p].status = 400 /\ resp[p].error = "invalid_request"
        /\ ~session[loc[p].user].pending
        /\ \E r \in codes : ~clients[r.clientId].firstParty

\* ---------------------------------------------------------------- C28

\* The response of a GET /authorize that failed a validation step: a JSON
\* error or an error redirect.
GetRefused(response) == response.error # ""

\* C28: a GET /authorize that fails a validation step (response_type,
\* client_id, client lookup, grant type, redirect URI, PKCE requirement,
\* challenge method, scopes) leaves the session, with any pending request in
\* it, and the code table as they were; a GET that passes them all stores
\* its request in the session.
C28_RefusedGetLeavesNoState ==
    [][\A p \in Solo :
        HandlesGet(p) =>
            /\ GetRefused(resp'[p])
                => session' = session /\ codes' = codes /\ nextCode' = nextCode
            /\ ~GetRefused(resp'[p])
                => /\ session'[loc'[p].user].pending
                   /\ session'[loc'[p].user].clientId = loc'[p].query.client_id]_vars

\* A request of c2 is pending in the session, and a later GET /authorize has
\* been refused for its scope, leaving that request in place.
C28_Witness ==
    \E p \in Solo :
        /\ pc[p] = "done" /\ loc[p].grant = "GET /authorize"
        /\ resp[p].error = "invalid_scope"
        /\ loc[p].query.client_id = "c1"
        /\ session[loc[p].user].pending
        /\ session[loc[p].user].clientId = "c2"

\* ---------------------------------------------------------------- C30

\* The rows whose access or refresh plaintext is `plain`.
RowsOf(plain) ==
    {t \in tokens : t.token = Sha256(plain) \/ t.refreshToken = Some(Sha256(plain))}

\* Both plaintexts of the row with that id are refused in the next state.
BothRefusedNext(id) ==
    /\ OAuthToken_validate(AccessPlain[id])' = NULL
    /\ OAuthToken_validateRefreshToken(RefreshPlain[id])' = NULL

\* `plain` is a plaintext of row t that is still good: t is not revoked, and
\* the half of it that `plain` is has not expired.
StillGood(t, plain) ==
    /\ t.revokedAt = NULL
    /\ \/ t.token = Sha256(plain) /\ t.expiresAt >= now
       \/ /\ t.refreshToken = Some(Sha256(plain))
          /\ t.refreshExpiresAt # NULL /\ t.refreshExpiresAt[1] >= now

\* C30 (as stated): after POST /revoke has answered 200 for the access or the
\* refresh plaintext of an existing row, both tokens of that row are refused.
\* Fails for the plaintext of an access token that has expired while the
\* refresh token of its row is still valid: the row is left as it is.
C30_RevokeOfAnyPlaintextKillsBoth ==
    [][\A p \in Solo :
        (StartsRevoke(p) /\ resp'[p].status = 200)
        => \A t \in RowsOf(loc'[p].body.token) : BothRefusedNext(t.id)]_vars

\* C30 (amended): when POST /revoke answers 200 for a plaintext that is still
\* good (the row is not revoked and the presented half has not expired, also
\* when it is the refresh token of a row whose access token has expired), the
\* row gets revoked_at, and from then on both its tokens are refused by
\* validate and by validateRefreshToken, and a refresh_token grant presenting
\* its refresh token is answered 400 invalid_grant; revoked_at stays set.  For a
\* plaintext that is no longer good the 200 leaves the token table unchanged.
C30_RevokeOfGoodPlaintextKillsBoth ==
    [][/\ \A p \in Solo :
            (StartsRevoke(p) /\ resp'[p].status = 200)
            => \A t \in RowsOf(loc'[p].body.token) :
                  IF StillGood(t, loc'[p].body.token)
                  THEN /\ \E u \in tokens' : u.id = t.id /\ u.revokedAt # NULL
                       /\ BothRefusedNext(t.id)
                  ELSE tokens' = tokens
       /\ \A t \in tokens : t.revokedAt # NULL =>
            /\ \E u \in tokens' : u.id = t.id /\ u.revokedAt # NULL
            /\ BothRefusedNext(t.id)
       /\ \A p \in Solo :
            (/\ pc[p] = "rt_validate" /\ pc'[p] # "rt_validate"
             /\ \E t \in RowsOf(loc[p].body.refresh_token) : t.revokedAt # NULL)
            => resp'[p] = InvalidGrantError("grant") /\ tokens' = tokens]_vars

\* POST /revoke has just answered 200 for a refresh token whose access token
\* had expired, and the row is revoked.
C30_Witness ==
    \E p \in Solo :
        /\ pc[p] = "done" /\ loc[p].grant = "POST /revoke" /\ resp[p].status = 200
        /\ \E t \in tokens :
              /\ t.refreshToken = Some(Sha256(loc[p].body.token))
              /\ t.expiresAt < now
              /\ t.refreshExpiresAt[1] >= now
              /\ t.revokedAt = Some(now)

\* ---------------------------------------------------------------- C31

\* Process q has answered 200 to a POST /revoke that found the refresh token
\* valid and revoked its row.
RevokeAnswered(q, plainRefresh) ==
    /\ pc[q] = "done" /\ loc[q].grant = "POST /revoke" /\ resp[q].status = 200
    /\ loc[q].body.token = plainRefresh
    /\ loc[q].revoked # {}
    /\ \A t \in RefreshRows(plainRefresh) : t.id \in loc[q].revoked

\* Process p completes a refresh_token grant with a new token pair.
ReturnsNewPair(p) ==
    /\ pc[p] = "rt_create" /\ pc'[p] = "done"
    /\ resp'[p].status = 200
    /\ resp'[p].refresh_token # Absent

\* C31: once POST /revoke has answered 200 for a valid refresh token, no
\* refresh_token grant presenting that token completes afterwards with a new
\* token pair, however the database steps of the two requests interleave.
C31_NoPairAfterRevokeAnswered ==
    [][\A p, q \in Procs :
          ReturnsNewPair(p) => ~RevokeAnswered(q, loc[p].body.refresh_token)]_vars

\* ---------------------------------------------------------------- C32

\* C32: when POST /revoke carries a client_id, only tokens issued to that
\* client are revoked: a row whose client_id differs from the request's keeps
\* revoked_at null.
C32_RevokeStaysWithinCallersTokens ==
    [][\A p \in Solo :
          (StartsRevoke(p) /\ Truthy(loc'[p].body.client_id)) =>
              \A t \in tokens :
                  (t.clientId # loc'[p].body.client_id /\ t.revokedAt = NULL) =>
                      \E u \in tokens' : u.id = t.id /\ u.revokedAt = NULL]_vars

\* ---------------------------------------------------------------- C33

\* Process p handles DELETE /personal-tokens/:id in this step.
HandlesDelete(p) ==
    pc[p] = "idle" /\ pc'[p] = "done" /\ loc'[p].grant = "DELETE /personal-tokens"

\* The row is a personal access token of the user: it carries the user's id and
\* the id of the configured personal-access client.
PersonalTokenOf(t, user) ==
    /\ t.userId = Some(getUserId(user))
    /\ config.personalAccessClient = Some(t.clientId)

\* C33: DELETE /personal-tokens/:id revokes a token only if it belongs to the
\* authenticated user and to the configured personal-access client; for any
\* other id the token table is left unchanged.
C33_DeleteRevokesOwnPersonalTokensOnly ==
    [][\A p \in Solo :
          HandlesDelete(p) =>
              LET named == {t \in tokens : t.id = loc'[p].id} IN
              (\A t \in named : ~PersonalTokenOf(t, loc'[p].user)) =>
                  tokens' = tokens]_vars

\* ---------------------------------------------------------------- C34

\* The scopes of the row are registered, and within the allow-list of the
\* row's client when the client has one.
ScopesContained(t) ==
    /\ Range(t.scopes) \subseteq scopeRegistry
    /\ clients[t.clientId].scopes # NULL =>
           Range(t.scopes) \subseteq Range(ValueOf(clients[t.clientId].scopes))

\* C34: every token issued through POST /token has registered scopes only,
\* and scopes within the allow-list of its client when that list is not null,
\* whatever sequence of authorize, exchange, client_credentials and refresh
\* requests produced it.
C34_IssuedScopesAreRegisteredAndAllowed ==
    \A t \in tokens : ScopesContained(t)

\* A refresh has just answered with a token that carries a scope, for a client
\* with an allow-list, next to an earlier token of that client.
C34_Witness ==
    \E p \in Solo : \E t \in tokens :
        /\ pc[p] = "done" /\ loc[p].grant = "refresh_token" /\ resp[p].status = 200
        /\ resp[p].access_token = AccessPlain[t.id]
        /\ t.scopes # <<>>
        /\ clients[t.clientId].scopes # NULL
        /\ \E u \in tokens : u.id < t.id /\ u.clientId = t.clientId

\* ---------------------------------------------------------------- C35

\* What the authorization request and the authorization code have in common:
\* client id, redirect URI, scopes, PKCE challenge and method.
GrantOf(r) ==
    [clientId |-> r.clientId, redirectUri |-> r.redirectUri, scopes |-> r.scopes,
     codeChallenge |-> r.codeChallenge,
     codeChallengeMethod |-> r.codeChallengeMethod]

\* The same five values as the query of a GET /authorize asks for them: the
\* scopes named or else the default scopes, the challenge if any, and with a
\* challenge the method named or else plain.
GrantAsked(q) ==
    [clientId |-> q.client_id, redirectUri |-> q.redirect_uri,
     scopes |-> IF q.scope.sent /\ q.scope.text # <<>> THEN SplitScope(q.scope)
                ELSE config.defaultScopes,
     codeChallenge |-> IF q.code_challenge \in {Absent, ""} THEN NULL
                       ELSE Some(q.code_challenge),
     codeChallengeMethod |->
         IF q.code_challenge \in {Absent, ""} THEN NULL
         ELSE IF q.code_challenge_method = Absent THEN Some("plain")
         ELSE Some(q.code_challenge_method)]

\* C35: the code created by an approved POST /authorize carries exactly the
\* client id, redirect URI, scopes and PKCE challenge and method of the most
\* recent GET /authorize that passed validation in that session.  A GET that
\* passes validation puts what it asked for in the session, replacing any
\* earlier pending request; nothing but a POST /authorize changes the session
\* after that; and the approved POST creates one code from what it finds.
C35_ApprovalAppliesToLatestValidGet ==
    [][\A p \in Solo :
        /\ (HandlesGet(p) /\ ~GetRefused(resp'[p]))
               => /\ session'[loc'[p].user].pending
                  /\ GrantOf(session'[loc'[p].user]) = GrantAsked(loc'[p].query)
        /\ (HandlesPost(p) /\ loc'[p].approved /\ codes' # codes)
               => /\ Cardinality(codes' \ codes) = 1
                  /\ \A r \in codes' \ codes :
                         GrantOf(r) = GrantOf(session[loc'[p].user])
        /\ ~(HandlesPost(p) \/ (HandlesGet(p) /\ ~GetRefused(resp'[p])))
               => session' = session]_vars

\* An approved POST /authorize has been answered with the code of a request
\* that named a scope and a PKCE challenge.
C35_Witness ==
    \E p \in Solo : \E r \in codes :
        /\ pc[p] = "done" /\ loc[p].grant = "POST /authorize" /\ loc[p].approved
        /\ resp[p].status = 302 /\ resp[p].code = CodePlain[r.id]
        /\ r.codeChallenge # NULL /\ r.scopes # <<>>

\* ---------------------------------------------------------------- C36

\* OAuthToken.validate accepts the access token of the row: the row is not
\* revoked and its access token has not expired.
ValidateAccepts(t) == OAuthToken_validate(AccessPlain[t.id]) = Some(t)

\* The refresh token of the row, if it has one, does not expire before its
\* access token.
RefreshOutlivesAccess(t) ==
    t.refreshExpiresAt # NULL => ValueOf(t.refreshExpiresAt) >= t.expiresAt

\* C36 as stated: OAuthToken.prune never deletes a row whose access token
\* OAuthToken.validate would accept at that moment, whatever the access and
\* refresh lifetimes are.
C36_PruneKeepsValidRows ==
    [][PruneTokens(config.pruneRevokedAfterDays) =>
          \A t \in tokens : ValidateAccepts(t) => t \in tokens']_vars

\* C36, amended: OAuthToken.prune never deletes a row whose access token
\* OAuthToken.validate would accept at that moment, provided the row has no
\* refresh token or one that does not expire before its access token.
C36_PruneKeepsValidRowsWhoseRefreshLastsLonger ==
    [][PruneTokens(config.pruneRevokedAfterDays) =>
          \A t \in tokens :
              (ValidateAccepts(t) /\ RefreshOutlivesAccess(t)) => t \in tokens']_vars

\* After the clock advanced, a row created at boot is still accepted by
\* validate and still in the table, while another row has been pruned.
C36_Witness ==
    /\ now > 0
    /\ \E t \in tokens :
           t.createdAt = 0 /\ ValidateAccepts(t) /\ RefreshOutlivesAccess(t)
    /\ \E id \in 1..nextToken : \A t \in tokens : t.id # id

\* ---------------------------------------------------------------- C37

\* The last_used_at update of the row with that id lands in this step.
UpdateLands(id) == id \in pendingTouch /\ id \notin pendingTouch'

\* The row without its last_used_at column.
BesidesLastUsed(t) == [t EXCEPT !.lastUsedAt = NULL]

\* C37: however the last_used_at update sent off by a successful validate
\* interleaves with a revoke or a prune of the same row, the update changes
\* only last_used_at of that row: every row keeps its other columns, revoked_at
\* included, no row appears or disappears, other rows are untouched, and a
\* token revoked before the update lands is still rejected afterwards.
C37_LateUpdateChangesOnlyLastUsedAt ==
    [][\A id \in 1..MaxTokens :
        UpdateLands(id) =>
            /\ {BesidesLastUsed(t) : t \in tokens'} = {BesidesLastUsed(t) : t \in tokens}
            /\ \A t \in tokens : t.id # id => t \in tokens'
            /\ (\A t \in tokens : t.id # id) => tokens' = tokens
            /\ \A t \in tokens :
                   t.revokedAt # NULL => OAuthToken_validate(AccessPlain[t.id])' = NULL]_vars

\* The update of a row landed after the row was revoked: the row is revoked
\* since boot and was last used after the clock advanced.
C37_Witness ==
    \E t \in tokens :
        /\ t.revokedAt = Some(0)
        /\ t.lastUsedAt # NULL /\ ValueOf(t.lastUsedAt) > 0

\* ---------------------------------------------------------------- C38

\* The request names an existing confidential client that is not revoked and
\* carries no client_secret.
SecretLeftOut(body) ==
    /\ Truthy(body.client_id)
    /\ body.client_id \in DOMAIN clients
    /\ ~clients[body.client_id].revoked
    /\ clients[body.client_id].confidential
    /\ ~Truthy(body.client_secret)

\* The request names a client that is unknown or revoked, or carries a secret
\* that is not the secret of the client it names.
ClientUnknownRevokedOrSecretWrong(body) ==
    /\ Truthy(body.client_id)
    /\ \/ body.client_id \notin DOMAIN clients
       \/ clients[body.client_id].revoked
       \/ /\ Truthy(body.client_secret)
          /\ clients[body.client_id].secret # Some(Sha256(body.client_secret))

\* C38: on POST /revoke and POST /introspect a request with a token that
\* names an existing, non-revoked confidential client and carries no
\* client_secret is not asked for the secret: it is answered 200, a valid
\* token presented to /revoke is revoked and /introspect reports the token
\* active exactly when it is.  A 401 is answered only when the client is
\* unknown or revoked or a supplied secret does not verify.
C38_SecretCheckedOnlyWhenSupplied ==
    [][\A p \in Solo :
        ((StartsRevoke(p) \/ StartsIntrospect(p)) /\ Truthy(loc'[p].body.token)) =>
            LET body == loc'[p].body IN
            /\ resp'[p].status = 401 => ClientUnknownRevokedOrSecretWrong(body)
            /\ SecretLeftOut(body) =>
                  /\ resp'[p].status = 200
                  /\ StartsRevoke(p) =>
                        \A t \in RowsOf(body.token) :
                            StillGood(t, body.token) => BothRefusedNext(t.id)
                  /\ StartsIntrospect(p) =>
                        (resp'[p].fields.active <=> ActiveRows(body.token) # {})]_vars

\* A revocation request in the name of the confidential c1, without secret,
\* has been answered 200 and has revoked the token it presented.
C38_Witness ==
    \E p \in Solo :
        /\ pc[p] = "done" /\ loc[p].grant = "POST /revoke"
        /\ loc[p].body.client_id = "c1" /\ loc[p].body.client_secret = Absent
        /\ clients["c1"].confidential /\ ~clients["c1"].revoked
        /\ resp[p].status = 200
        /\ loc[p].revoked # {}
        /\ \A t \in tokens : t.id \in loc[p].revoked => t.revokedAt # NULL

\* ---------------------------------------------------------------- C39

\* The list validate decides about: the requested names, or the defaults when
\* none is requested.
EffectiveScopes(l) ==
    IF l.requested # <<>> THEN l.requested ELSE l.defaultScopes

\* Every name of the list is registered and, when the client has an
\* allow-list, in it.
AllRegisteredAndAllowed(list, clientAllowed) ==
    \A i \in 1..Len(list) :
        /\ list[i] \in scopeRegistry
        /\ clientAllowed # NULL =>
               \E j \in 1..Len(ValueOf(clientAllowed)) :
                   ValueOf(clientAllowed)[j] = list[i]

\* C39: ScopeRegistry.validate(requested, clientAllowed, defaults) returns
\* requested when it is non-empty and defaults otherwise, in input order, and
\* succeeds only if every returned name is registered and, when clientAllowed
\* is non-null, in clientAllowed; in every other case it fails with
\* invalid_scope, the defaults being checked like requested names.
C39_ValidateReturnsRequestedOrDefaults ==
    \A p \in Solo :
        (pc[p] = "done" /\ loc[p].grant = "ScopeRegistry.validate") =>
            IF AllRegisteredAndAllowed(EffectiveScopes(loc[p]), loc[p].clientAllowed)
            THEN resp[p].error = "" /\ resp[p].scopes = EffectiveScopes(loc[p])
            ELSE resp[p].error = "invalid_scope"

\* Nothing was requested and the defaults write, read came back in that order
\* for a client whose allow-list has both.
C39_Witness ==
    \E p \in Solo :
        /\ pc[p] = "done" /\ loc[p].grant = "ScopeRegistry.validate"
        /\ loc[p].requested = <<>>
        /\ loc[p].clientAllowed # NULL
        /\ resp[p].error = "" /\ resp[p].scopes = <<"write", "read">>

\* ---------------------------------------------------------------- C40

\* The code rows that are used or expired.
UsedOrExpired == {r \in codes : r.usedAt # NULL \/ r.expiresAt < now}

\* consume would still accept the row, presented by its client with the right
\* redirect URI and some verifier.
ConsumeWouldAccept(r) ==
    \E v \in Verifiers : AuthCode_accepts(r, r.redirectUri, v)

\* The token rows OAuthToken.prune(n) deletes: access token expired without
\* refresh token, refresh token expired, or revoked before the cutoff.
PrunedTokens(n) ==
    {t \in tokens :
        \/ t.refreshExpiresAt = NULL /\ t.expiresAt < now
        \/ t.refreshExpiresAt # NULL /\ t.refreshExpiresAt[1] < now
        \/ t.revokedAt # NULL /\ t.revokedAt[1] < now - n}

\* C40: pruning is idempotent when no rows are added and the clock does not
\* advance: after OAuthToken.prune(n) or AuthCode.prune() no row is left that
\* a second call would delete, so it deletes nothing and returns 0; and
\* AuthCode.prune deletes exactly the rows that are used or expired, never a
\* code that consume would still accept.
C40_PruneIsIdempotentAndExact ==
    [][/\ AuthCode_prune =>
             /\ codes \ codes' = UsedOrExpired
             /\ codes' \subseteq codes
             /\ UsedOrExpired' = {}
             /\ \A r \in codes : ConsumeWouldAccept(r) => r \in codes'
       /\ PruneTokens(config.pruneRevokedAfterDays) =>
             /\ tokens' \subseteq tokens
             /\ PrunedTokens(config.pruneRevokedAfterDays)' = {}]_vars

\* Both tables have been pruned, a code and a token are gone, and a code that
\* consume would accept is in the table.
C40_Witness ==
    /\ \E id \in 1..nextCode : \A r \in codes : r.id # id
    /\ \E id \in 1..nextToken : \A t \in tokens : t.id # id
    /\ \E r \in codes : ConsumeWouldAccept(r)

====
